---- MODULE Spec2Model ----
\* A model of field-populator: the call gateway (rate limiter + retry), the
\* insert-only plain-text merge, the insert-only rich-text merge, the adoption
\* of a tree of entries and the diff tree of the dialog.
EXTENDS Integers, Sequences, FiniteSets, TLC

VARIABLES
  clock,        \* Date.now(), in ms
  calls,        \* createRateLimiter: the sliding log of admission timestamps
  recent,       \* history: the admission timestamps of the last windowMs ms
  nAdmitted,    \* history: how many calls throttle() has admitted
  pc,           \* per caller: where it is in throttle() / callCMA()
  api,          \* per caller: "throttle" (bare throttle()) or "callCMA"
  wakeAt,       \* per caller: earliest time its pending sleep() resolves
  attempt,      \* per caller: callCMA's attempt counter
  invocations,  \* per caller: how many times callCMA invoked fn()
  sleeps,       \* per caller: how many backoff sleeps callCMA started
  lastErr,      \* per caller: the last error fn() rejected with
  thrown,       \* per caller: the error callCMA rejected with
  srcText,       \* plain-text merge: the source-locale string
  tgtText,       \* plain-text merge: the target-locale string
  merged,       \* mergeSourceAdditionsIntoTarget(srcText, tgtText)
  remerged,     \* mergeSourceAdditionsIntoTarget(srcText, merged)
  textPc,       \* "input", "merged" or "remerged"
  srcDoc,       \* rich-text merge: the sourceDoc argument
  tgtDoc,       \* rich-text merge: the targetDoc argument
  outcome,      \* what mergeRichTextDocuments(srcDoc, tgtDoc) returned or threw
  reoutcome,    \* what mergeRichTextDocuments(srcDoc, outcome.value) returned or threw
  richPc,       \* "input", "merged" or "remerged"
  store,        \* the remote space: per entry id its version, content type and fields
  selected,     \* adoptEntryTree: per entry id the field ids the user ticked
  adoptAll,     \* adoptEntryTree: the adoptAll flag
  adPc,         \* "idle", "running", "done" or "failed": the current invocation
  stack,        \* the pending adoptEntryTree calls, innermost last
  visited,      \* the visited set shared by the calls of one invocation
  ctCache,      \* the content types cached by the calls of one invocation
  entryGets,    \* per entry id: cma.entry.get calls of the current invocation
  ctGets,       \* per content type id: cma.contentType.get calls of the invocation
  updates,      \* the cma.entry.update requests of the current invocation
  summary,      \* what the last completed invocation returned
  store0,       \* the remote space when the current invocation started
  runs,         \* how many invocations completed
  failures,     \* how many invocations a failing update aborted
  afterDone,    \* whether the invocation before the current one completed
  dfPc,         \* buildDiffTree: "idle", "running", "done" or "failed"
  dfStack,      \* the pending buildDiffTree calls, innermost last
  cache,        \* the entries cached by the calls of one traversal, by id
  dfCtCache,    \* buildDiffTree's ctCache: the content type ids cached
  assetCache,   \* the asset ids cached by the calls of one traversal
  dfCalls,      \* the requests the dialog and buildDiffTree sent to the space
  dfVisits,     \* the entry ids buildDiffTree was called on, in order
  dfTree        \* the tree the outermost buildDiffTree call returned

gwVars == <<clock, calls, recent, nAdmitted, pc, api, wakeAt, attempt, invocations,
            sleeps, lastErr, thrown>>

textVars == <<srcText, tgtText, merged, remerged, textPc>>

richVars == <<srcDoc, tgtDoc, outcome, reoutcome, richPc>>

adoptVars == <<store, selected, adoptAll, adPc, stack, visited, ctCache, entryGets,
               ctGets, updates, summary, store0, runs, failures, afterDone>>

\* What the call gateway leaves alone, what the text merge leaves alone and
\* what the rich-text merge leaves alone.
diffVars == <<dfPc, dfStack, cache, dfCtCache, assetCache, dfCalls, dfVisits, dfTree>>

notGwVars == <<textVars, richVars, adoptVars, diffVars>>
notTextVars == <<gwVars, richVars, adoptVars, diffVars>>
notRichVars == <<gwVars, textVars, adoptVars, diffVars>>
notAdoptVars == <<gwVars, textVars, richVars, diffVars>>
notDiffVars == <<gwVars, textVars, richVars, adoptVars>>

vars == <<gwVars, textVars, richVars, adoptVars, diffVars>>

----------------------------------------------------------------------------
\* Bounds of the model.
NumCallers == 2
MaxAdmissions == 9
MaxTime == 1500
MaxTimeCMA == 4800
MaxTextLen == 4
MaxInlines == 2
MaxBlocks == 2
MaxRuns == 2
MaxFailures == 1
MaxDepth == 4
MaxDiffDepth == 5

\* Program constants.
maxPerSecond == 8
jitterMs == 25
windowMs == 1000
retries == 4
baseDelay == 300

Callers == 1..NumCallers
\* The callers that run callCMA in SpecCMA.
CMACallers == {1}
\* How far Date.now() moves between two steps of the callers.
TimeSteps == {250, 1000}
TimeStepsCMA == {300, 2400}
\* Math.floor(Math.random() * jitterMs): the extremes of 0..jitterMs-1
Jitters == {0, jitterMs - 1}
\* Math.floor(Math.random() * 100) in callCMA's backoff: the extremes
BackoffJitters == {0, 99}

NoErr == [status |-> 0, sysId |-> "none", n |-> 0]
\* What fn() can reject with: {status, sys: {id}}; n tells the error objects apart.
ErrShapes == { [status |-> 429, sysId |-> "none"],
               [status |-> 0,   sysId |-> "RateLimitExceeded"],
               [status |-> 409, sysId |-> "VersionMismatch"],
               [status |-> 404, sysId |-> "NotFound"] }

Max(a, b) == IF a >= b THEN a ELSE b
Min(a, b) == IF a <= b THEN a ELSE b

CeilDiv(a, b) == (a + b - 1) \div b
minInterval == CeilDiv(windowMs, maxPerSecond)

Pow2(n) == IF n = 0 THEN 1 ELSE IF n = 1 THEN 2 ELSE IF n = 2 THEN 4
           ELSE IF n = 3 THEN 8 ELSE IF n = 4 THEN 16 ELSE 32

----------------------------------------------------------------------------
\* createRateLimiter / throttle

\* A limiter that never forgets a timestamp.
DropOldNever(cs, now) == cs

RECURSIVE DropOld(_, _)
\* while (calls.length && now - calls[0] > windowMs) calls.shift();
DropOld(cs, now) ==
  IF Len(cs) > 0 /\ now - Head(cs) > windowMs THEN DropOld(Tail(cs), now) ELSE cs

\* A limiter that lets one call too many through.
WindowFullOffByOne(cs) == Len(cs) > maxPerSecond

\* if (calls.length >= maxPerSecond)
WindowFull(cs) == Len(cs) >= maxPerSecond

\* Math.max(minInterval - (now - calls[0]), 0) + jitter
ThrottleWait(cs, now, j) == Max(minInterval - (now - Head(cs)), 0) + j

\* isRate = e?.status === 429 || e?.sys?.id === "RateLimitExceeded"
IsRate(e) == e.status = 429 \/ e.sysId = "RateLimitExceeded"

\* A catch block that gives up one attempt early.
GivesUpEarly(e, att) == ~IsRate(e) \/ att >= retries - 1

\* A catch block that retries whatever the failure is.
GivesUpOnlyWhenExhausted(e, att) == att >= retries

\* if (!isRate || attempt >= retries) throw e;
GivesUp(e, att) == ~IsRate(e) \/ att >= retries

\* A backoff that grows linearly instead of doubling.
BackoffWaitLinear(att, j) == baseDelay * (att + 1) + j

\* baseDelay * Math.pow(2, attempt) + jitter
BackoffWait(att, j) == baseDelay * Pow2(att) + j

GwInit ==
  /\ clock = 0
  /\ calls = <<>>
  /\ recent = <<>>
  /\ nAdmitted = 0
  /\ pc = [c \in Callers |-> "idle"]
  /\ api = [c \in Callers |-> "none"]
  /\ wakeAt = [c \in Callers |-> 0]
  /\ attempt = [c \in Callers |-> 0]
  /\ invocations = [c \in Callers |-> 0]
  /\ sleeps = [c \in Callers |-> 0]
  /\ lastErr = [c \in Callers |-> NoErr]
  /\ thrown = [c \in Callers |-> NoErr]

\* The call gateway before any call, for the specifications that do not run it.
GwIdle == GwInit

\* Time passes (Date.now() advances) while some caller is still running.
Tick(limit, steps) ==
  /\ \E c \in Callers : pc[c] \notin {"idle", "returned", "thrown"}
  /\ \E d \in steps :
       /\ clock + d <= limit
       /\ clock' = clock + d
       /\ recent' = SelectSeq(recent, LAMBDA t : clock + d - t <= windowMs)
  /\ UNCHANGED <<calls, nAdmitted, pc, api, wakeAt, attempt, invocations,
                 sleeps, lastErr, thrown>>
  /\ UNCHANGED notGwVars

\* A caller calls the exported throttle() directly.
CallThrottle(c) ==
  /\ pc[c] \in {"idle", "returned"}
  /\ nAdmitted < MaxAdmissions
  /\ pc' = [pc EXCEPT ![c] = "throttle"]
  /\ api' = [api EXCEPT ![c] = "throttle"]
  /\ UNCHANGED <<clock, calls, recent, nAdmitted, wakeAt, attempt, invocations,
                 sleeps, lastErr, thrown>>
  /\ UNCHANGED notGwVars

\* A caller calls callCMA(fn): attempt = 0, then the loop's first throttle().
CallCMA(c) ==
  /\ pc[c] = "idle"
  /\ pc' = [pc EXCEPT ![c] = "throttle"]
  /\ api' = [api EXCEPT ![c] = "callCMA"]
  /\ attempt' = [attempt EXCEPT ![c] = 0]
  /\ invocations' = [invocations EXCEPT ![c] = 0]
  /\ sleeps' = [sleeps EXCEPT ![c] = 0]
  /\ lastErr' = [lastErr EXCEPT ![c] = NoErr]
  /\ thrown' = [thrown EXCEPT ![c] = NoErr]
  /\ UNCHANGED <<clock, calls, recent, nAdmitted, wakeAt>>
  /\ UNCHANGED notGwVars

\* One synchronous run of throttle()'s body: drop old timestamps, then either
\* start a sleep (window full) or push the timestamp and return.
ThrottleStep(c) ==
  /\ pc[c] = "throttle"
  /\ LET kept == DropOld(calls, clock) IN
       IF WindowFull(kept)
       THEN /\ \E j \in Jitters :
                 wakeAt' = [wakeAt EXCEPT ![c] = clock + ThrottleWait(kept, clock, j)]
            /\ calls' = kept
            /\ pc' = [pc EXCEPT ![c] = "throttleSleep"]
            /\ UNCHANGED <<recent, nAdmitted, invocations>>
       ELSE /\ calls' = Append(kept, clock)
            /\ recent' = Append(recent, clock)
            /\ nAdmitted' = nAdmitted + 1
            /\ IF api[c] = "callCMA"
               THEN /\ pc' = [pc EXCEPT ![c] = "fn"]
                    /\ invocations' = [invocations EXCEPT ![c] = @ + 1]
               ELSE /\ pc' = [pc EXCEPT ![c] = "returned"]
                    /\ UNCHANGED invocations
            /\ UNCHANGED wakeAt
  /\ UNCHANGED <<clock, api, attempt, sleeps, lastErr, thrown>>
  /\ UNCHANGED notGwVars

\* sleep(wait) resolves no earlier than its timeout; throttle() re-checks.
ThrottleWake(c) ==
  /\ pc[c] = "throttleSleep"
  /\ clock >= wakeAt[c]
  /\ pc' = [pc EXCEPT ![c] = "throttle"]
  /\ wakeAt' = [wakeAt EXCEPT ![c] = 0]
  /\ UNCHANGED <<clock, calls, recent, nAdmitted, api, attempt, invocations,
                 sleeps, lastErr, thrown>>
  /\ UNCHANGED notGwVars

\* return await fn(): fn resolves.
FnOk(c) ==
  /\ pc[c] = "fn"
  /\ pc' = [pc EXCEPT ![c] = "returned"]
  /\ UNCHANGED <<clock, calls, recent, nAdmitted, api, wakeAt, attempt, invocations,
                 sleeps, lastErr, thrown>>
  /\ UNCHANGED notGwVars

\* fn rejects with e: the catch block either rethrows e or starts the backoff.
FnFail(c) ==
  /\ pc[c] = "fn"
  /\ \E s \in ErrShapes :
       LET e == [status |-> s.status, sysId |-> s.sysId, n |-> invocations[c]] IN
         /\ lastErr' = [lastErr EXCEPT ![c] = e]
         /\ IF GivesUp(e, attempt[c])
            THEN /\ thrown' = [thrown EXCEPT ![c] = e]
                 /\ pc' = [pc EXCEPT ![c] = "thrown"]
                 /\ UNCHANGED <<wakeAt, sleeps>>
            ELSE /\ \E j \in BackoffJitters :
                      wakeAt' = [wakeAt EXCEPT ![c] = clock + BackoffWait(attempt[c], j)]
                 /\ sleeps' = [sleeps EXCEPT ![c] = @ + 1]
                 /\ pc' = [pc EXCEPT ![c] = "backoff"]
                 /\ UNCHANGED thrown
  /\ UNCHANGED <<clock, calls, recent, nAdmitted, api, attempt, invocations>>
  /\ UNCHANGED notGwVars

\* The backoff sleep resolves: attempt++, and the loop goes back to throttle().
BackoffWake(c) ==
  /\ pc[c] = "backoff"
  /\ clock >= wakeAt[c]
  /\ attempt' = [attempt EXCEPT ![c] = @ + 1]
  /\ pc' = [pc EXCEPT ![c] = "throttle"]
  /\ wakeAt' = [wakeAt EXCEPT ![c] = 0]
  /\ UNCHANGED <<clock, calls, recent, nAdmitted, api, invocations, sleeps,
                 lastErr, thrown>>
  /\ UNCHANGED notGwVars

\* The plain-text merge before any input, for the specifications that do not run it.
TextIdle ==
  /\ srcText = <<>>
  /\ tgtText = <<>>
  /\ merged = <<>>
  /\ remerged = <<>>
  /\ textPc = "idle"

\* The arguments and the result of the rich-text merge are arbitrary JavaScript
\* values: the field js holds the type of such a value.
Null == [js |-> "null"]
Undefined == [js |-> "undefined"]

\* What a call does: it returns a value, which may be the very object it was
\* given (same), or it throws.
Returned(value, same) == [threw |-> FALSE, same |-> same, value |-> value]

Thrown == [threw |-> TRUE, same |-> FALSE, value |-> Undefined]

NoOutcome == Returned(Undefined, FALSE)

\* The rich-text merge before any input, for the specifications that do not run it.
RichIdle ==
  /\ srcDoc = Null
  /\ tgtDoc = Null
  /\ outcome = NoOutcome
  /\ reoutcome = NoOutcome
  /\ richPc = "idle"

\* The dialog's tree before it is built, for the specifications that do not
\* build it.
DiffIdle ==
  /\ dfPc = "off"
  /\ dfStack = <<>>
  /\ cache = <<>>
  /\ dfCtCache = {}
  /\ assetCache = {}
  /\ dfCalls = <<>>
  /\ dfVisits = <<>>
  /\ dfTree = Null

\* The adoption before any invocation, for the specifications that do not run
\* it, in a space that is given.
AdoptOff ==
  /\ selected = <<>>
  /\ adoptAll = FALSE
  /\ adPc = "off"
  /\ stack = <<>>
  /\ visited = {}
  /\ ctCache = {}
  /\ entryGets = <<>>
  /\ ctGets = <<>>
  /\ updates = <<>>
  /\ summary = Null
  /\ store0 = <<>>
  /\ runs = 0
  /\ failures = 0
  /\ afterDone = FALSE

\* The adoption before any invocation, for the specifications that do not run it.
AdoptIdle == store = <<>> /\ AdoptOff

\* Callers of the bare limiter.
Next ==
  \/ Tick(MaxTime, TimeSteps)
  \/ \E c \in Callers : CallThrottle(c)
  \/ \E c \in Callers : ThrottleStep(c)
  \/ \E c \in Callers : ThrottleWake(c)

Init == GwInit /\ TextIdle /\ RichIdle /\ AdoptIdle /\ DiffIdle

Spec == Init /\ [][Next]_vars

\* Callers of callCMA.
NextCMA ==
  \/ Tick(MaxTimeCMA, TimeStepsCMA)
  \/ \E c \in CMACallers : CallCMA(c)
  \/ \E c \in Callers : ThrottleStep(c)
  \/ \E c \in Callers : ThrottleWake(c)
  \/ \E c \in Callers : FnOk(c)
  \/ \E c \in Callers : FnFail(c)
  \/ \E c \in Callers : BackoffWake(c)

\* callCMA may start when earlier traffic has already filled the limiter's window.
GwInitCMA ==
  /\ clock = 0
  /\ calls \in {<<>>, [i \in 1..maxPerSecond |-> 0]}
  /\ recent = calls
  /\ nAdmitted = Len(calls)
  /\ pc = [c \in Callers |-> "idle"]
  /\ api = [c \in Callers |-> "none"]
  /\ wakeAt = [c \in Callers |-> 0]
  /\ attempt = [c \in Callers |-> 0]
  /\ invocations = [c \in Callers |-> 0]
  /\ sleeps = [c \in Callers |-> 0]
  /\ lastErr = [c \in Callers |-> NoErr]
  /\ thrown = [c \in Callers |-> NoErr]

InitCMA == GwInitCMA /\ TextIdle /\ RichIdle /\ AdoptIdle /\ DiffIdle

SpecCMA == InitCMA /\ [][NextCMA]_vars

----------------------------------------------------------------------------
\* Strings are sequences of characters; a diff is a sequence of [op, text].
\* diff-match-patch, the library behind dmp.diff_main and
\* dmp.diff_cleanupSemantic, with its default settings (Diff_Timeout 1.0; the
\* texts here are far too short for the deadline or the line mode to matter).

DIFF_DELETE == -1
DIFF_INSERT == 1
DIFF_EQUAL == 0

D(op, text) == [op |-> op, text |-> text]

\* s.substring(a, b), 0-based, clamped to the string.
Substring(s, a, b) == SubSeq(s, Max(a, 0) + 1, Min(b, Len(s)))
\* s.substring(a)
SubstringFrom(s, a) == Substring(s, a, Len(s))

\* the number of characters common to the start of each string
diff_commonPrefix(a, b) ==
  LET RECURSIVE PrefixFrom(_)
      PrefixFrom(n) ==
        IF n < Len(a) /\ n < Len(b) /\ a[n + 1] = b[n + 1] THEN PrefixFrom(n + 1) ELSE n
  IN PrefixFrom(0)

\* the number of characters common to the end of each string
diff_commonSuffix(a, b) ==
  LET RECURSIVE SuffixFrom(_)
      SuffixFrom(n) ==
        IF n < Len(a) /\ n < Len(b) /\ a[Len(a) - n] = b[Len(b) - n]
        THEN SuffixFrom(n + 1) ELSE n
  IN SuffixFrom(0)

\* the length of the longest suffix of a that is a prefix of b
diff_commonOverlap(a, b) ==
  LET RECURSIVE OverlapFrom(_)
      OverlapFrom(k) ==
        IF k = 0 THEN 0
        ELSE IF SubstringFrom(a, Len(a) - k) = Substring(b, 0, k) THEN k
        ELSE OverlapFrom(k - 1)
  IN OverlapFrom(Min(Len(a), Len(b)))

RECURSIVE IndexOf(_, _, _)
\* hay.indexOf(needle, from): -1 when there is none
IndexOf(hay, needle, from) ==
  IF from + Len(needle) > Len(hay) THEN -1
  ELSE IF Substring(hay, from, from + Len(needle)) = needle THEN from
  ELSE IndexOf(hay, needle, from + 1)

\* diffs.splice(i, n, ...items), i 0-based
Splice(ds, i, n, items) == SubSeq(ds, 1, i) \o items \o SubSeq(ds, i + n + 1, Len(ds))

RECURSIVE diff_cleanupMerge(_)
\* The first pass walks the diffs with pointer p, collecting each run of edits:
\* cd/ci count its deletions/insertions and td/ti hold their joined texts. The
\* second pass shifts a single edit between two equalities sideways when that
\* eliminates an equality.
diff_cleanupMerge(diffs) ==
  LET \* Factor out a prefix of n characters common to the run's two texts: it
      \* joins the equality before the run, or becomes a new first equality.
      FactorPrefix(st, n) ==
        IF n = 0 THEN st
        ELSE IF st.p - st.cd - st.ci > 0 /\ st.diffs[st.p - st.cd - st.ci].op = DIFF_EQUAL
          THEN [st EXCEPT !.diffs[st.p - st.cd - st.ci].text = @ \o Substring(st.ti, 0, n),
                          !.ti = SubstringFrom(@, n), !.td = SubstringFrom(@, n)]
          ELSE [st EXCEPT !.diffs = <<D(DIFF_EQUAL, Substring(st.ti, 0, n))>> \o @,
                          !.p = @ + 1,
                          !.ti = SubstringFrom(@, n), !.td = SubstringFrom(@, n)]
      \* Factor out a common suffix of n characters: it joins the equality at p.
      FactorSuffix(st, n) ==
        IF n = 0 THEN st
        ELSE [st EXCEPT !.diffs[st.p + 1].text = SubstringFrom(st.ti, Len(st.ti) - n) \o @,
                        !.ti = Substring(@, 0, Len(@) - n),
                        !.td = Substring(@, 0, Len(@) - n)]
      FactorPrefixOf(st) == FactorPrefix(st, diff_commonPrefix(st.ti, st.td))
      FactorSuffixOf(st) == FactorSuffix(st, diff_commonSuffix(st.ti, st.td))
      FactorRun(st) ==
        IF st.cd # 0 /\ st.ci # 0 THEN FactorSuffixOf(FactorPrefixOf(st)) ELSE st
      MergedEdits(st) ==
        (IF st.td # <<>> THEN <<D(DIFF_DELETE, st.td)>> ELSE <<>>)
          \o (IF st.ti # <<>> THEN <<D(DIFF_INSERT, st.ti)>> ELSE <<>>)
      \* Delete the offending records and add the merged ones.
      ReplaceRun(st) ==
        [st EXCEPT !.diffs = Splice(@, st.p - st.cd - st.ci, st.cd + st.ci, MergedEdits(st)),
                   !.p = st.p - st.cd - st.ci + Len(MergedEdits(st)) + 1]
      ResetRun(st) == [st EXCEPT !.cd = 0, !.ci = 0, !.td = <<>>, !.ti = <<>>]
      \* case DIFF_EQUAL: upon reaching an equality, check for prior redundancies.
      MergeAtEquality(st) ==
        IF st.cd + st.ci > 1 THEN ResetRun(ReplaceRun(FactorRun(st)))
        ELSE IF st.p # 0 /\ st.diffs[st.p].op = DIFF_EQUAL
          THEN ResetRun([st EXCEPT !.diffs =
                 Splice([st.diffs EXCEPT ![st.p].text = @ \o st.diffs[st.p + 1].text],
                        st.p, 1, <<>>)])
          ELSE ResetRun([st EXCEPT !.p = @ + 1])
      RECURSIVE MergePass1(_)
      MergePass1(st) ==
        IF st.p >= Len(st.diffs) THEN st.diffs
        ELSE IF st.diffs[st.p + 1].op = DIFF_INSERT
          THEN MergePass1([st EXCEPT !.ci = @ + 1, !.ti = @ \o st.diffs[st.p + 1].text,
                                     !.p = @ + 1])
        ELSE IF st.diffs[st.p + 1].op = DIFF_DELETE
          THEN MergePass1([st EXCEPT !.cd = @ + 1, !.td = @ \o st.diffs[st.p + 1].text,
                                     !.p = @ + 1])
        ELSE MergePass1(MergeAtEquality(st))
      EndsWith(s, t) == SubstringFrom(s, Len(s) - Len(t)) = t
      StartsWith(s, t) == Substring(s, 0, Len(t)) = t
      \* Shift the edit at p + 1 over the previous equality.
      ShiftEditLeft(ds, p) ==
        Splice([ds EXCEPT ![p + 1].text =
                            ds[p].text \o Substring(@, 0, Len(@) - Len(ds[p].text)),
                          ![p + 2].text = ds[p].text \o @],
               p - 1, 1, <<>>)
      \* Shift the edit at p + 1 over the next equality.
      ShiftEditRight(ds, p) ==
        Splice([ds EXCEPT ![p].text = @ \o ds[p + 2].text,
                          ![p + 1].text =
                            SubstringFrom(@, Len(ds[p + 2].text)) \o ds[p + 2].text],
               p + 1, 1, <<>>)
      RECURSIVE MergePass2(_)
      MergePass2(st) ==
        IF st.p >= Len(st.diffs) - 1 THEN st
        ELSE IF st.diffs[st.p].op = DIFF_EQUAL /\ st.diffs[st.p + 2].op = DIFF_EQUAL
          THEN IF EndsWith(st.diffs[st.p + 1].text, st.diffs[st.p].text)
               THEN MergePass2([diffs |-> ShiftEditLeft(st.diffs, st.p), p |-> st.p + 1,
                                changes |-> TRUE])
               ELSE IF StartsWith(st.diffs[st.p + 1].text, st.diffs[st.p + 2].text)
               THEN MergePass2([diffs |-> ShiftEditRight(st.diffs, st.p), p |-> st.p + 1,
                                changes |-> TRUE])
               ELSE MergePass2([st EXCEPT !.p = @ + 1])
          ELSE MergePass2([st EXCEPT !.p = @ + 1])
      \* Remove the dummy entry at the end.
      PopDummy(ds) ==
        IF ds[Len(ds)].text = <<>> THEN SubSeq(ds, 1, Len(ds) - 1) ELSE ds
      \* If shifts were made, the diff needs reordering and another shift sweep.
      MergeAgain(two) ==
        IF two.changes THEN diff_cleanupMerge(two.diffs) ELSE two.diffs
  IN MergeAgain(MergePass2(
       [diffs |-> PopDummy(MergePass1([diffs |-> Append(diffs, D(DIFF_EQUAL, <<>>)),
                                       p |-> 0, cd |-> 0, ci |-> 0,
                                       td |-> <<>>, ti |-> <<>>])),
        p |-> 1, changes |-> FALSE]))

NoHalfMatch == <<>>

Longer(t1, t2) == IF Len(t1) > Len(t2) THEN t1 ELSE t2

Shorter(t1, t2) == IF Len(t1) > Len(t2) THEN t2 ELSE t1

\* diff_halfMatch_: [t1a, t1b, t2a, t2b, common] or NoHalfMatch
diff_halfMatch(t1, t2) ==
  LET \* The match of long at i with short at j: pl characters after, sl before.
      HalfMatchCandidate(long, short, i, j, pl, sl) ==
        [common |-> Substring(short, j - sl, j) \o Substring(short, j, j + pl),
         la |-> Substring(long, 0, i - sl), lb |-> SubstringFrom(long, i + pl),
         sa |-> Substring(short, 0, j - sl), sb |-> SubstringFrom(short, j + pl)]
      BetterCandidate(best, cand) ==
        IF Len(best.common) < Len(cand.common) THEN cand ELSE best
      RECURSIVE HalfMatchScan(_, _, _, _, _, _)
      HalfMatchFound(long, short, i, seed, j, best) ==
        IF j = -1 THEN best
        ELSE HalfMatchScan(long, short, i, seed, j,
               BetterCandidate(best,
                 HalfMatchCandidate(long, short, i, j,
                   diff_commonPrefix(SubstringFrom(long, i), SubstringFrom(short, j)),
                   diff_commonSuffix(Substring(long, 0, i), Substring(short, 0, j)))))
      \* while ((j = shorttext.indexOf(seed, j + 1)) != -1): keeps the best match
      HalfMatchScan(long, short, i, seed, j, best) ==
        HalfMatchFound(long, short, i, seed, IndexOf(short, seed, j + 1), best)
      HalfOfLong(long, best) ==
        IF Len(best.common) * 2 >= Len(long) THEN best ELSE NoHalfMatch
      \* diff_halfMatchI_: is a substring of short at least half the length of long?
      diff_halfMatchI(long, short, i) ==
        HalfOfLong(long,
          HalfMatchScan(long, short, i, Substring(long, i, i + (Len(long) \div 4)), -1,
            [common |-> <<>>, la |-> <<>>, lb |-> <<>>, sa |-> <<>>, sb |-> <<>>]))
      BestHalfMatch(hm1, hm2) ==
        IF hm2 = NoHalfMatch THEN hm1
        ELSE IF hm1 = NoHalfMatch THEN hm2
        ELSE IF Len(hm1.common) > Len(hm2.common) THEN hm1 ELSE hm2
      \* the halves named after text1 and text2
      OrientHalfMatch(hm) ==
        IF hm = NoHalfMatch THEN NoHalfMatch
        ELSE IF Len(t1) > Len(t2)
          THEN [t1a |-> hm.la, t1b |-> hm.lb, t2a |-> hm.sa, t2b |-> hm.sb,
                common |-> hm.common]
          ELSE [t1a |-> hm.sa, t1b |-> hm.sb, t2a |-> hm.la, t2b |-> hm.lb,
                common |-> hm.common]
      \* the second quarter and the third quarter of long as the seed
      HalfMatchOf(long, short) ==
        BestHalfMatch(diff_halfMatchI(long, short, CeilDiv(Len(long), 4)),
                      diff_halfMatchI(long, short, CeilDiv(Len(long), 2)))
  IN IF Len(Longer(t1, t2)) < 4 \/ Len(Shorter(t1, t2)) * 2 < Len(Longer(t1, t2))
     THEN NoHalfMatch
     ELSE OrientHalfMatch(HalfMatchOf(Longer(t1, t2), Shorter(t1, t2)))

RECURSIVE diff_main(_, _)
RECURSIVE diff_compute(_, _)

\* diff_bisectSplit_
diff_bisectSplit(t1, t2, x, y) ==
  diff_main(Substring(t1, 0, x), Substring(t2, 0, y))
    \o diff_main(SubstringFrom(t1, x), SubstringFrom(t2, y))

\* diff_bisect_: Myers' middle snake. st.split becomes <<x, y>> where the front
\* path and the reverse path overlap.
diff_bisect(t1, t2) ==
  LET n1 == Len(t1)
      n2 == Len(t2)
      delta == n1 - n2
      front == delta % 2 # 0
      maxd == CeilDiv(Len(t1) + Len(t2), 2)
      v0 == [i \in 0..(2 * maxd - 1) |-> IF i = maxd + 1 THEN 0 ELSE -1]
      NoSplit == <<>>
      RECURSIVE SnakeFront(_, _)
      SnakeFront(x, y) ==
        IF x < Len(t1) /\ y < Len(t2) /\ t1[x + 1] = t2[y + 1]
        THEN SnakeFront(x + 1, y + 1) ELSE x
      RECURSIVE SnakeBack(_, _)
      SnakeBack(x, y) ==
        IF x < Len(t1) /\ y < Len(t2) /\ t1[Len(t1) - x] = t2[Len(t2) - y]
        THEN SnakeBack(x + 1, y + 1) ELSE x
      \* v[i] < v[j], false when either index is off the array (undefined)
      VLess(v, i, j) == i \in DOMAIN v /\ j \in DOMAIN v /\ v[i] < v[j]
      \* Where diagonal k starts in round d: from the diagonal above or below.
      BisectStart(v, off, k, d) ==
        IF k = -d \/ (k # d /\ VLess(v, off + k - 1, off + k + 1))
        THEN v[off + k + 1] ELSE v[off + k - 1] + 1
      RECURSIVE BisectFront(_)
      \* for (k1 = -d + k1start; k1 <= d - k1end; k1 += 2): the front path
      BisectFront(st) ==
        LET k1 == st.k
        IN IF k1 > st.d - st.k1end THEN st
           ELSE LET x0 == BisectStart(st.v1, st.off, k1, st.d)
                    x1 == SnakeFront(x0, x0 - k1)
                    y1 == x1 - k1
                    v1n == [st.v1 EXCEPT ![st.off + k1] = x1]
                    k2o == st.off + delta - k1
                IN IF x1 > n1
                     THEN BisectFront([st EXCEPT !.v1 = v1n, !.k1end = @ + 2, !.k = @ + 2])
                   ELSE IF y1 > n2
                     THEN BisectFront([st EXCEPT !.v1 = v1n, !.k1start = @ + 2, !.k = @ + 2])
                   ELSE IF front /\ k2o \in DOMAIN st.v2 /\ st.v2[k2o] # -1
                           /\ x1 >= n1 - st.v2[k2o]
                     THEN [st EXCEPT !.v1 = v1n, !.split = <<x1, y1>>]
                   ELSE BisectFront([st EXCEPT !.v1 = v1n, !.k = @ + 2])
      RECURSIVE BisectBack(_)
      \* for (k2 = -d + k2start; k2 <= d - k2end; k2 += 2): the reverse path
      BisectBack(st) ==
        LET k2 == st.k
        IN IF k2 > st.d - st.k2end THEN st
           ELSE LET x0 == BisectStart(st.v2, st.off, k2, st.d)
                    x2 == SnakeBack(x0, x0 - k2)
                    y2 == x2 - k2
                    v2n == [st.v2 EXCEPT ![st.off + k2] = x2]
                    k1o == st.off + delta - k2
                IN IF x2 > n1
                     THEN BisectBack([st EXCEPT !.v2 = v2n, !.k2end = @ + 2, !.k = @ + 2])
                   ELSE IF y2 > n2
                     THEN BisectBack([st EXCEPT !.v2 = v2n, !.k2start = @ + 2, !.k = @ + 2])
                   ELSE IF ~front /\ k1o \in DOMAIN st.v1 /\ st.v1[k1o] # -1
                           /\ st.v1[k1o] >= n1 - x2
                     THEN [st EXCEPT !.v2 = v2n,
                                     !.split = <<st.v1[k1o], st.off + st.v1[k1o] - k1o>>]
                   ELSE BisectBack([st EXCEPT !.v2 = v2n, !.k = @ + 2])
      RECURSIVE BisectRounds(_)
      \* after the reverse path of round d: split at the overlap, or go a round on
      BisectAfterBack(b) ==
        IF b.split # NoSplit THEN diff_bisectSplit(t1, t2, b.split[1], b.split[2])
        ELSE BisectRounds([b EXCEPT !.d = @ + 1])
      \* after the front path of round d: split at the overlap, or walk the reverse path
      BisectAfterFront(f) ==
        IF f.split # NoSplit THEN diff_bisectSplit(t1, t2, f.split[1], f.split[2])
        ELSE BisectAfterBack(BisectBack([f EXCEPT !.k = -f.d + f.k2start]))
      \* for (d = 0; d < max_d; d++): the front path, then the reverse path
      BisectRounds(st) ==
        IF st.d >= st.maxd THEN <<D(DIFF_DELETE, t1), D(DIFF_INSERT, t2)>>
        ELSE BisectAfterFront(BisectFront([st EXCEPT !.k = -st.d + st.k1start]))
  IN BisectRounds([d |-> 0, k |-> 0, off |-> maxd, maxd |-> maxd,
                   v1 |-> v0, v2 |-> v0, split |-> NoSplit,
                   k1start |-> 0, k1end |-> 0, k2start |-> 0, k2end |-> 0])

\* diff_compute_
diff_compute(t1, t2) ==
  LET \* no shorter text inside the longer: half match, else bisect
      ComputeByHalves(hm) ==
        IF hm # NoHalfMatch
        THEN diff_main(hm.t1a, hm.t2a) \o <<D(DIFF_EQUAL, hm.common)>>
               \o diff_main(hm.t1b, hm.t2b)
        ELSE diff_bisect(t1, t2)
      \* i = longtext.indexOf(shorttext)
      ComputeAt(long, short, i) ==
        IF i # -1
          THEN <<D(IF Len(t1) > Len(t2) THEN DIFF_DELETE ELSE DIFF_INSERT,
                   Substring(long, 0, i)),
                 D(DIFF_EQUAL, short),
                 D(IF Len(t1) > Len(t2) THEN DIFF_DELETE ELSE DIFF_INSERT,
                   SubstringFrom(long, i + Len(short)))>>
        ELSE IF Len(short) = 1
          THEN <<D(DIFF_DELETE, t1), D(DIFF_INSERT, t2)>>
        ELSE ComputeByHalves(diff_halfMatch(t1, t2))
  IN IF t1 = <<>> THEN <<D(DIFF_INSERT, t2)>>
     ELSE IF t2 = <<>> THEN <<D(DIFF_DELETE, t1)>>
     ELSE ComputeAt(Longer(t1, t2), Shorter(t1, t2),
                    IndexOf(Longer(t1, t2), Shorter(t1, t2), 0))

diff_main(text1, text2) ==
  IF text1 = text2
  THEN IF text1 # <<>> THEN <<D(DIFF_EQUAL, text1)>> ELSE <<>>
  ELSE
    LET cp == diff_commonPrefix(text1, text2)
        a1 == SubstringFrom(text1, cp)
        a2 == SubstringFrom(text2, cp)
        cs == diff_commonSuffix(a1, a2)
        mid == diff_compute(Substring(a1, 0, Len(a1) - cs), Substring(a2, 0, Len(a2) - cs))
        pre == IF cp > 0 THEN <<D(DIFF_EQUAL, Substring(text1, 0, cp))>> ELSE <<>>
        suf == IF cs > 0 THEN <<D(DIFF_EQUAL, SubstringFrom(a1, Len(a1) - cs))>> ELSE <<>>
    IN diff_cleanupMerge(pre \o mid \o suf)

\* diff_cleanupSemanticScore_: 6 (best) to 0 (worst)
diff_cleanupSemanticScore(one, two) ==
  LET \* The character classes of the boundary score.
      Letters == {"a", "b", "c", "d", "e", "f", "g", "h", "i", "j", "k", "l", "m",
        "n", "o", "p", "q", "r", "s", "t", "u", "v", "w", "x", "y", "z", "A", "B",
        "C", "D", "E", "F", "G", "H", "I", "J", "K", "L", "M", "N", "O", "P", "Q",
        "R", "S", "T", "U", "V", "W", "X", "Y", "Z", "0", "1", "2", "3", "4", "5",
        "6", "7", "8", "9"}
      Whitespace == {" ", "\n", "\r", "\t"}
      Linebreaks == {"\n", "\r"}
      \* /\n\r?\n$/
      BlankLineEnd ==
        \/ Len(one) >= 2 /\ one[Len(one)] = "\n" /\ one[Len(one) - 1] = "\n"
        \/ Len(one) >= 3 /\ one[Len(one)] = "\n" /\ one[Len(one) - 1] = "\r"
             /\ one[Len(one) - 2] = "\n"
      \* /^\r?\n\r?\n/
      BlankLineStart ==
        LET rest1 == IF Len(two) >= 1 /\ two[1] = "\r" THEN Tail(two) ELSE two
            rest2 == IF Len(rest1) >= 1 /\ rest1[1] = "\n" THEN Tail(rest1) ELSE <<"!">>
            rest3 == IF Len(rest2) >= 1 /\ rest2[1] = "\r" THEN Tail(rest2) ELSE rest2
        IN Len(rest3) >= 1 /\ rest3[1] = "\n"
      char1 == one[Len(one)]
      char2 == two[1]
      na1 == char1 \notin Letters
      na2 == char2 \notin Letters
      ws1 == na1 /\ char1 \in Whitespace
      ws2 == na2 /\ char2 \in Whitespace
      lb1 == ws1 /\ char1 \in Linebreaks
      lb2 == ws2 /\ char2 \in Linebreaks
      bl1 == lb1 /\ BlankLineEnd
      bl2 == lb2 /\ BlankLineStart
  IN IF one = <<>> \/ two = <<>> THEN 6
     ELSE IF bl1 \/ bl2 THEN 5
     ELSE IF lb1 \/ lb2 THEN 4
     ELSE IF na1 /\ ~ws1 /\ ws2 THEN 3
     ELSE IF ws1 \/ ws2 THEN 2
     ELSE IF na1 \/ na2 THEN 1
     ELSE 0

\* Slide each edit between two equalities to the position where its two
\* boundaries score best, without changing what the diff says.
diff_cleanupSemanticLossless(diffs) ==
  LET \* The fit of an edit between two equalities: the scores of its boundaries.
      SlideScore(s) ==
        diff_cleanupSemanticScore(s.eq1, s.edit) + diff_cleanupSemanticScore(s.edit, s.eq2)
      \* The >= encourages trailing rather than leading whitespace on edits.
      BetterFit(best, cand, score) ==
        IF score >= best.score
        THEN [eq1 |-> cand.eq1, edit |-> cand.edit, eq2 |-> cand.eq2, score |-> score]
        ELSE best
      SlideRight(cur) ==
        [eq1 |-> Append(cur.eq1, Head(cur.edit)),
         edit |-> Append(Tail(cur.edit), Head(cur.eq2)),
         eq2 |-> Tail(cur.eq2)]
      RECURSIVE LosslessSlide(_, _)
      LosslessSlid(nxt, best) == LosslessSlide(nxt, BetterFit(best, nxt, SlideScore(nxt)))
      \* Step the edit right, character by character, looking for the best fit.
      LosslessSlide(cur, best) ==
        IF cur.edit # <<>> /\ cur.eq2 # <<>> /\ Head(cur.edit) = Head(cur.eq2)
        THEN LosslessSlid(SlideRight(cur), best)
        ELSE best
      \* First, shift the edit as far left as possible: off characters.
      ShiftedLeft(eq1, edit, eq2, off) ==
        [eq1 |-> Substring(eq1, 0, Len(eq1) - off),
         edit |-> SubstringFrom(edit, Len(edit) - off) \o Substring(edit, 0, Len(edit) - off),
         eq2 |-> SubstringFrom(edit, Len(edit) - off) \o eq2]
      BestFit(s) ==
        LosslessSlide(s, [eq1 |-> s.eq1, edit |-> s.edit, eq2 |-> s.eq2,
                          score |-> SlideScore(s)])
      \* Save the improvement back; an emptied equality is spliced out.
      SaveFit(ds, p, best) ==
        Splice(ds, p - 1, 3,
          (IF best.eq1 # <<>> THEN <<D(DIFF_EQUAL, best.eq1)>> ELSE <<>>)
            \o <<D(ds[p + 1].op, best.edit)>>
            \o (IF best.eq2 # <<>> THEN <<D(DIFF_EQUAL, best.eq2)>> ELSE <<>>))
      PointerAfterFit(p, best) ==
        p - (IF best.eq1 = <<>> THEN 1 ELSE 0) - (IF best.eq2 = <<>> THEN 1 ELSE 0) + 1
      RECURSIVE LosslessPass(_, _)
      LosslessAt(ds, p, best) ==
        IF ds[p].text # best.eq1
        THEN LosslessPass(SaveFit(ds, p, best), PointerAfterFit(p, best))
        ELSE LosslessPass(ds, p + 1)
      \* Intentionally ignores the first and last element (they need no checking).
      LosslessPass(ds, p) ==
        IF p >= Len(ds) - 1 THEN ds
        ELSE IF ds[p].op = DIFF_EQUAL /\ ds[p + 2].op = DIFF_EQUAL
          THEN LosslessAt(ds, p,
                 BestFit(ShiftedLeft(ds[p].text, ds[p + 1].text, ds[p + 2].text,
                                     diff_commonSuffix(ds[p].text, ds[p + 1].text))))
          ELSE LosslessPass(ds, p + 1)
  IN LosslessPass(diffs, 1)

\* Eliminate an equality that is no longer than the edits on both sides of it:
\* it becomes a deletion followed by an insertion of the same text.
\* equalities is the array used as a stack and eqLen is equalitiesLength, the
\* library's own length counter: two decrements per elimination can take it
\* below zero, and the array is then written and read at negative indices.
diff_cleanupSemantic(diffs) ==
  LET RECURSIVE SumLen(_)
      SumLen(ds) == IF ds = <<>> THEN 0 ELSE Len(Head(ds).text) + SumLen(Tail(ds))
      RECURSIVE EliminatePass(_)
      EliminatePass(st) ==
        IF st.p >= Len(st.diffs) THEN st
        ELSE LET d == st.diffs[st.p + 1] IN
          IF d.op = DIFF_EQUAL
          THEN EliminatePass([st EXCEPT !.equalities[st.eqLen] = st.p,
                                        !.eqLen = @ + 1,
                                        !.li1 = st.li2, !.ld1 = st.ld2,
                                        !.li2 = 0, !.ld2 = 0,
                                        !.last = d.text, !.p = @ + 1])
          ELSE LET li2 == IF d.op = DIFF_INSERT THEN st.li2 + Len(d.text) ELSE st.li2
                   ld2 == IF d.op = DIFF_INSERT THEN st.ld2 ELSE st.ld2 + Len(d.text)
               IN IF st.last # <<>> /\ Len(st.last) <= Max(st.li1, st.ld1)
                      /\ Len(st.last) <= Max(li2, ld2)
                  THEN LET at == st.equalities[st.eqLen - 1]
                           ds1 == Splice(st.diffs, at, 0, <<D(DIFF_DELETE, st.last)>>)
                           ds2 == [ds1 EXCEPT ![at + 2].op = DIFF_INSERT]
                           n == st.eqLen - 2
                       IN EliminatePass([st EXCEPT !.diffs = ds2, !.eqLen = n,
                                         !.p = (IF n > 0 THEN st.equalities[n - 1] ELSE -1) + 1,
                                         !.li1 = 0, !.ld1 = 0, !.li2 = 0, !.ld2 = 0,
                                         !.last = <<>>, !.changes = TRUE])
                  ELSE EliminatePass([st EXCEPT !.li2 = li2, !.ld2 = ld2, !.p = @ + 1])
      RECURSIVE OverlapPass(_, _)
      \* <del>abcxxx</del><ins>xxxdef</ins> -> <del>abc</del>xxx<ins>def</ins>
      \* <del>xxxabc</del><ins>defxxx</ins> -> <ins>def</ins>xxx<del>abc</del>
      OverlapPass(ds, p) ==
        IF p >= Len(ds) THEN ds
        ELSE IF ds[p].op = DIFF_DELETE /\ ds[p + 1].op = DIFF_INSERT
          THEN LET deletion == ds[p].text
                   insertion == ds[p + 1].text
                   o1 == diff_commonOverlap(deletion, insertion)
                   o2 == diff_commonOverlap(insertion, deletion)
               IN IF o1 >= o2
                  THEN IF o1 * 2 >= Len(deletion) \/ o1 * 2 >= Len(insertion)
                       THEN OverlapPass(Splice(ds, p - 1, 2,
                              <<D(DIFF_DELETE, Substring(deletion, 0, Len(deletion) - o1)),
                                D(DIFF_EQUAL, Substring(insertion, 0, o1)),
                                D(DIFF_INSERT, SubstringFrom(insertion, o1))>>), p + 3)
                       ELSE OverlapPass(ds, p + 2)
                  ELSE IF o2 * 2 >= Len(deletion) \/ o2 * 2 >= Len(insertion)
                       THEN OverlapPass(Splice(ds, p - 1, 2,
                              <<D(DIFF_INSERT, Substring(insertion, 0, Len(insertion) - o2)),
                                D(DIFF_EQUAL, Substring(deletion, 0, o2)),
                                D(DIFF_DELETE, SubstringFrom(deletion, o2))>>), p + 3)
                       ELSE OverlapPass(ds, p + 2)
          ELSE OverlapPass(ds, p + 1)
      \* Normalize the diff when equalities were eliminated.
      NormalizeAfter(el) ==
        IF el.changes THEN diff_cleanupMerge(el.diffs) ELSE el.diffs
      EliminateFrom(span) ==
        EliminatePass([diffs |-> diffs,
                       equalities |-> [i \in (-span)..span |-> -1], eqLen |-> 0,
                       p |-> 0, li1 |-> 0, ld1 |-> 0, li2 |-> 0, ld2 |-> 0,
                       last |-> <<>>, changes |-> FALSE])
  IN OverlapPass(
       diff_cleanupSemanticLossless(
         NormalizeAfter(EliminateFrom(SumLen(diffs) + Len(diffs) + 1))),
       1)

----------------------------------------------------------------------------
\* mergeText.js

\* What one span of the diff appends to out (the loop body).
AppendSpanApplyingDeletes(d) ==
  IF d.op = DIFF_DELETE THEN <<>> ELSE d.text

AppendSpanDroppingInserts(d) ==
  IF d.op = DIFF_INSERT THEN <<>> ELSE d.text

AppendSpan(d) ==
  IF d.op = DIFF_EQUAL THEN d.text
  ELSE IF d.op = DIFF_INSERT THEN d.text
  ELSE IF d.op = DIFF_DELETE THEN d.text
  ELSE <<>>

RECURSIVE ConcatAll(_)
\* for (const [op, text] of diffs) ...
ConcatAll(diffs) ==
  IF diffs = <<>> THEN <<>> ELSE AppendSpan(Head(diffs)) \o ConcatAll(Tail(diffs))

\* The cleaned-up diff from target to source.
TextDiffs(source, target) == diff_cleanupSemantic(diff_main(target, source))

mergeSourceAdditionsIntoTarget(source, target) ==
  ConcatAll(TextDiffs(source, target))

\* The plain-text merge on every pair of strings up to MaxTextLen characters,
\* and on one longer pair with a sentence added before the final full stop.
Alphabet == {"a", " "}

RECURSIVE StringsUpTo(_)
StringsUpTo(n) ==
  IF n = 0 THEN {<<>>}
  ELSE StringsUpTo(n - 1) \cup {Append(s, c) : s \in StringsUpTo(n - 1), c \in Alphabet}

SentenceTarget == <<"H", "e", "l", "l", "o", " ", "w", "o", "r", "l", "d",
  ".">>

SentenceSource == <<"H", "e", "l", "l", "o", " ", "w", "o", "r", "l", "d",
  ",", " ", "n", "e", "w", " ", "s", "e", "n", "t", "e", "n", "c", "e", ".">>

TextInit ==
  /\ \/ /\ srcText \in StringsUpTo(MaxTextLen)
        /\ tgtText \in StringsUpTo(MaxTextLen)
     \/ /\ srcText = SentenceSource
        /\ tgtText = SentenceTarget
  /\ merged = <<>>
  /\ remerged = <<>>
  /\ textPc = "input"

\* merged = mergeSourceAdditionsIntoTarget(source, target)
Merge ==
  /\ textPc = "input"
  /\ merged' = mergeSourceAdditionsIntoTarget(srcText, tgtText)
  /\ textPc' = "merged"
  /\ UNCHANGED <<srcText, tgtText, remerged>>
  /\ UNCHANGED notTextVars

\* the merge run again, on its own result as the target
Remerge ==
  /\ textPc = "merged"
  /\ remerged' = mergeSourceAdditionsIntoTarget(srcText, merged)
  /\ textPc' = "remerged"
  /\ UNCHANGED <<srcText, tgtText, merged>>
  /\ UNCHANGED notTextVars

NextText == Merge \/ Remerge

InitText == TextInit /\ GwIdle /\ RichIdle /\ AdoptIdle /\ DiffIdle

SpecText == InitText /\ [][NextText]_vars

----------------------------------------------------------------------------
\* mergeRichText.js
\* A node is the record of its JSON object and a string is a sequence of
\* characters; a data object is written as its JSON text.

Str == [js |-> "string"]
Arr(items) == [js |-> "array", items |-> items]
Obj(nodeType, content) == [js |-> "object", nodeType |-> nodeType, content |-> content]

EmptyData == "{}"

TextNode(value, marks) ==
  [nodeType |-> "text", value |-> value, marks |-> marks, data |-> EmptyData]

Node(nodeType, data, content) ==
  [nodeType |-> nodeType, data |-> data, content |-> content]

Mark(type) == [type |-> type]

IsNullish(v) == v.js \in {"null", "undefined"}

\* val.nodeType and val.content: undefined where the value has no such property
NodeTypeOf(v) == IF "nodeType" \in DOMAIN v THEN v.nodeType ELSE "undefined"

ContentOf(v) == IF "content" \in DOMAIN v THEN v.content ELSE Undefined

isRichTextDocument(val) ==
  /\ ~IsNullish(val)
  /\ val.js \in {"object", "array"}
  /\ NodeTypeOf(val) = "document"
  /\ ContentOf(val).js = "array"

InlineKinds == {"paragraph", "heading-1", "heading-2", "heading-3", "heading-4",
                "heading-5", "heading-6", "blockquote"}

ListKinds == {"unordered-list", "ordered-list"}

isInlineBlockType(nodeType) == nodeType \in InlineKinds

\* JSON.parse(JSON.stringify(v)): a deep copy, the same value in a new object
clone(v) == v

\* JSON.stringify(a) === JSON.stringify(b)
jsonEqAlways(a, b) == TRUE

jsonEq(a, b) == a = b

cloneMarks(marks) == [i \in DOMAIN marks |-> Mark(marks[i].type)]

cloneHyperlink(h) == [data |-> clone(h.data)]

\* marks.map((m) => m.type).sort().join("|"): two lists of marks give the same
\* string when they hold the same types the same number of times, so the
\* string is kept as that count per type.
SortedTypes(marks) ==
  [t \in {marks[i].type : i \in DOMAIN marks} |->
     Cardinality({i \in DOMAIN marks : marks[i].type = t})]

sameMarks(a, b) == Len(a) = Len(b) /\ SortedTypes(a) = SortedTypes(b)

sameHyperlink(a, b) ==
  IF a = Null /\ b = Null THEN TRUE
  ELSE IF a = Null \/ b = Null THEN FALSE
  ELSE a.data = b.data

normalizeMarks(marks) ==
  LET RECURSIVE normalizeMarksFrom(_, _)
      normalizeMarksFrom(rest, by) ==
        IF rest = <<>> THEN by
        ELSE IF \E i \in DOMAIN by : by[i].type = Head(rest).type
          THEN normalizeMarksFrom(Tail(rest), by)
          ELSE normalizeMarksFrom(Tail(rest), Append(by, Mark(Head(rest).type)))
  IN normalizeMarksFrom(marks, <<>>)

\* ---- flattenInlineBlock ----

flattenInlineBlock(block) ==
  LET pushSpan(acc, t, marks, hyperlink) ==
        IF t = <<>> THEN acc
        ELSE [text |-> acc.text \o t,
              spans |-> Append(acc.spans,
                [start |-> Len(acc.text), end |-> Len(acc.text) + Len(t),
                 marks |-> cloneMarks(marks),
                 hyperlink |-> IF hyperlink # Null THEN cloneHyperlink(hyperlink) ELSE Null,
                 text |-> t])]
      \* node.marks || activeMarks
      MarksOr(node, activeMarks) ==
        IF "marks" \in DOMAIN node THEN node.marks ELSE activeMarks
      RECURSIVE walk(_, _, _, _)
      \* switch (node.nodeType)
      walkNode(node, activeMarks, activeHyperlink, acc) ==
        IF node.nodeType = "text"
          THEN pushSpan(acc, node.value, MarksOr(node, activeMarks), activeHyperlink)
        ELSE IF node.nodeType = "hyperlink"
          THEN walk(node.content, MarksOr(node, activeMarks), node, acc)
        ELSE IF "content" \in DOMAIN node
          THEN walk(node.content, MarksOr(node, activeMarks), activeHyperlink, acc)
        ELSE acc
      walk(nodes, activeMarks, activeHyperlink, acc) ==
        IF nodes = <<>> THEN acc
        ELSE walk(Tail(nodes), activeMarks, activeHyperlink,
                  walkNode(Head(nodes), activeMarks, activeHyperlink, acc))
  IN walk(block.content, <<>>, Null, [text |-> <<>>, spans |-> <<>>])

\* ---- span utilities ----

\* A slice that copies the text of the target's spans without their marks and
\* links.
sliceSpansUnformatted(spans, start, end) ==
  LET hit == SelectSeq(spans, LAMBDA s : ~(s.end <= start \/ s.start >= end))
  IN IF start >= end THEN <<>>
     ELSE [i \in DOMAIN hit |->
             [start |-> Max(start, hit[i].start), end |-> Min(end, hit[i].end),
              marks |-> <<>>, hyperlink |-> Null,
              text |-> Substring(hit[i].text, Max(start, hit[i].start) - hit[i].start,
                                 Min(end, hit[i].end) - hit[i].start)]]

sliceSpans(spans, start, end) ==
  LET SlicedSpan(s) ==
        [start |-> Max(start, s.start), end |-> Min(end, s.end),
         marks |-> cloneMarks(s.marks),
         hyperlink |-> IF s.hyperlink # Null THEN cloneHyperlink(s.hyperlink) ELSE Null,
         text |-> Substring(s.text, Max(start, s.start) - s.start,
                            Min(end, s.end) - s.start)]
      RECURSIVE sliceSpansFrom(_, _)
      sliceSpansFrom(rest, out) ==
        IF rest = <<>> THEN out
        ELSE IF Head(rest).end <= start \/ Head(rest).start >= end
          THEN sliceSpansFrom(Tail(rest), out)
          ELSE sliceSpansFrom(Tail(rest), Append(out, SlicedSpan(Head(rest))))
  IN IF start >= end THEN <<>> ELSE sliceSpansFrom(spans, <<>>)

\* a || b
OrElse(a, b) == IF a # Null THEN a ELSE b

spanAtPositionNone(spans, pos) == Null

spanAtPosition(spans, pos) ==
  LET RECURSIVE SpanCovering(_)
      \* for (const s of spans) if (pos >= s.start && pos < s.end) return s
      SpanCovering(rest) ==
        IF rest = <<>> THEN Null
        ELSE IF pos >= Head(rest).start /\ pos < Head(rest).end THEN Head(rest)
        ELSE SpanCovering(Tail(rest))
  IN IF pos < 0 THEN Null
     ELSE OrElse(SpanCovering(spans),
                 IF spans # <<>> /\ pos = spans[Len(spans)].end
                 THEN spans[Len(spans)] ELSE Null)

coalesceSpans(spans) ==
  LET RECURSIVE coalesceSpansFrom(_, _)
      coalesceSpansFrom(rest, out) ==
        IF rest = <<>> THEN out
        ELSE IF /\ out # <<>>
                /\ sameMarks(out[Len(out)].marks, Head(rest).marks)
                /\ sameHyperlink(out[Len(out)].hyperlink, Head(rest).hyperlink)
          THEN coalesceSpansFrom(Tail(rest),
                 [out EXCEPT ![Len(out)].text = @ \o Head(rest).text])
          ELSE coalesceSpansFrom(Tail(rest), Append(out, Head(rest)))
  IN coalesceSpansFrom(spans, <<>>)

\* ---- rebuildSpansFromDiffs ----

rebuildSpansFromDiffs(diffs, targetSpans) ==
  LET \* the new span of an insertion, formatted like the span it inherits from
      InsertedSpan(inherit, text) ==
        [start |-> -1, end |-> -1,
         marks |-> IF inherit # Null THEN cloneMarks(inherit.marks) ELSE <<>>,
         hyperlink |-> IF inherit # Null /\ inherit.hyperlink # Null
                       THEN cloneHyperlink(inherit.hyperlink) ELSE Null,
         text |-> text]
      Inherit(cursor) ==
        OrElse(spanAtPosition(targetSpans, cursor), spanAtPosition(targetSpans, cursor - 1))
      RECURSIVE rebuildFrom(_, _, _)
      \* for (const [op, text] of diffs): cursor is the position in the target text
      rebuildFrom(rest, cursor, out) ==
        IF rest = <<>> THEN out
        ELSE IF Head(rest).op = DIFF_EQUAL \/ Head(rest).op = DIFF_DELETE
          THEN rebuildFrom(Tail(rest), cursor + Len(Head(rest).text),
                 out \o sliceSpans(targetSpans, cursor, cursor + Len(Head(rest).text)))
        ELSE IF Head(rest).op = DIFF_INSERT
          THEN rebuildFrom(Tail(rest), cursor,
                 Append(out, InsertedSpan(Inherit(cursor), Head(rest).text)))
        ELSE rebuildFrom(Tail(rest), cursor, out)
  IN coalesceSpans(rebuildFrom(diffs, 0, <<>>))

\* ---- buildInlineBlockFromSpans ----

buildInlineBlockFromSpans(nodeType, data, spans) ==
  LET \* `${m}::${h}`: the sorted mark types and the JSON text of the link data
      keyFor(marks, hyperlink) ==
        [m |-> SortedTypes(marks), h |-> IF hyperlink # Null THEN hyperlink.data ELSE ""]
      \* currentMarksKey = "": the text of no key, every key holding "::"
      NoKey == [m |-> SortedTypes(<<>>), h |-> "no key"]
      flushText(b) ==
        IF b.text = <<>> THEN b
        ELSE [b EXCEPT
                !.content = Append(@,
                  IF b.hyperlink # Null
                  THEN Node("hyperlink", clone(b.hyperlink.data),
                            <<TextNode(b.text, b.marks)>>)
                  ELSE TextNode(b.text, b.marks)),
                !.text = <<>>]
      \* if (k !== currentMarksKey): flush, then take the formatting of span s
      Reformat(b, s, k) ==
        IF k # b.key
        THEN [flushText(b) EXCEPT
                !.key = k,
                !.marks = normalizeMarks(s.marks),
                !.hyperlink = IF s.hyperlink # Null
                              THEN [data |-> clone(s.hyperlink.data)] ELSE Null]
        ELSE b
      AddSpan(b, s) ==
        [Reformat(b, s, keyFor(s.marks, s.hyperlink)) EXCEPT !.text = @ \o s.text]
      RECURSIVE buildFrom(_, _)
      buildFrom(rest, b) ==
        IF rest = <<>> THEN flushText(b)
        ELSE buildFrom(Tail(rest), AddSpan(b, Head(rest)))
  IN Node(nodeType, data,
          buildFrom(spans, [content |-> <<>>, key |-> NoKey, marks |-> <<>>,
                            hyperlink |-> Null, text |-> <<>>]).content)

\* ---- mergeInlineBlock, mergeListBlock, mergeRichTextDocuments ----

MergedSpans(srcPara, tgtPara) ==
  rebuildSpansFromDiffs(diff_cleanupSemantic(diff_main(tgtPara.text, srcPara.text)),
                        tgtPara.spans)

mergeInlineBlock(srcBlock, tgtBlock) ==
  buildInlineBlockFromSpans(tgtBlock.nodeType, tgtBlock.data,
    MergedSpans(flattenInlineBlock(srcBlock), flattenInlineBlock(tgtBlock)))

\* one pair of child blocks of two list items
MergeChildPair(cs, ct) ==
  IF cs.nodeType = ct.nodeType
  THEN IF isInlineBlockType(ct.nodeType) THEN <<mergeInlineBlock(cs, ct)>>
       ELSE IF jsonEq(cs, ct) THEN <<clone(ct)>>
       ELSE <<clone(ct), clone(cs)>>
  ELSE <<clone(ct), clone(cs)>>

MergeChildAt(childSrc, childTgt, j) ==
  IF j > Len(childTgt) THEN <<clone(childSrc[j])>>
  ELSE IF j > Len(childSrc) THEN <<clone(childTgt[j])>>
  ELSE MergeChildPair(childSrc[j], childTgt[j])

RECURSIVE MergeChildrenFrom(_, _, _, _)
\* for (let j = 0; j < maxChild; j++)
MergeChildrenFrom(childSrc, childTgt, j, childMerged) ==
  IF j > Max(Len(childSrc), Len(childTgt)) THEN childMerged
  ELSE MergeChildrenFrom(childSrc, childTgt, j + 1,
                         childMerged \o MergeChildAt(childSrc, childTgt, j))

\* a no-op placeholder
coalesceAdjacentTextNodesInBlocks(blocks) == blocks

MergeItemPair(srcItem, tgtItem) ==
  IF srcItem.nodeType # tgtItem.nodeType THEN <<clone(tgtItem), clone(srcItem)>>
  ELSE <<[clone(tgtItem) EXCEPT !.content =
            coalesceAdjacentTextNodesInBlocks(
              MergeChildrenFrom(srcItem.content, tgtItem.content, 1, <<>>))]>>

MergeItemAt(srcItems, tgtItems, i) ==
  IF i > Len(tgtItems) THEN <<clone(srcItems[i])>>
  ELSE IF i > Len(srcItems) THEN <<clone(tgtItems[i])>>
  ELSE MergeItemPair(srcItems[i], tgtItems[i])

RECURSIVE MergeItemsFrom(_, _, _, _)
\* for (let i = 0; i < maxLen; i++)
MergeItemsFrom(srcItems, tgtItems, i, mergedItems) ==
  IF i > Max(Len(srcItems), Len(tgtItems)) THEN mergedItems
  ELSE MergeItemsFrom(srcItems, tgtItems, i + 1,
                      mergedItems \o MergeItemAt(srcItems, tgtItems, i))

mergeListBlock(srcList, tgtList) ==
  [clone(tgtList) EXCEPT !.content =
     MergeItemsFrom(srcList.content, tgtList.content, 1, <<>>)]

\* both blocks present at index i
\* A merge that lets the source block take the place of a target block of
\* another kind.
MergeBlockPairReplacing(srcBlock, tgtBlock) ==
  IF srcBlock.nodeType # tgtBlock.nodeType THEN <<clone(srcBlock)>>
  ELSE IF tgtBlock.nodeType \in InlineKinds THEN <<mergeInlineBlock(srcBlock, tgtBlock)>>
  ELSE IF tgtBlock.nodeType \in ListKinds THEN <<mergeListBlock(srcBlock, tgtBlock)>>
  ELSE IF jsonEq(srcBlock, tgtBlock) THEN <<clone(tgtBlock)>>
  ELSE <<clone(tgtBlock), clone(srcBlock)>>

MergeBlockPair(srcBlock, tgtBlock) ==
  IF srcBlock.nodeType # tgtBlock.nodeType THEN <<clone(tgtBlock), clone(srcBlock)>>
  ELSE IF tgtBlock.nodeType \in InlineKinds THEN <<mergeInlineBlock(srcBlock, tgtBlock)>>
  ELSE IF tgtBlock.nodeType \in ListKinds THEN <<mergeListBlock(srcBlock, tgtBlock)>>
  ELSE IF jsonEq(srcBlock, tgtBlock) THEN <<clone(tgtBlock)>>
  ELSE <<clone(tgtBlock), clone(srcBlock)>>

MergeBlockAt(srcBlocks, tgtBlocks, i) ==
  IF i > Len(tgtBlocks) THEN <<clone(srcBlocks[i])>>
  ELSE IF i > Len(srcBlocks) THEN <<clone(tgtBlocks[i])>>
  ELSE MergeBlockPair(srcBlocks[i], tgtBlocks[i])

RECURSIVE MergeBlocksFrom(_, _, _, _)
\* for (let i = 0; i < maxLen; i++)
MergeBlocksFrom(srcBlocks, tgtBlocks, i, mergedBlocks) ==
  IF i > Max(Len(srcBlocks), Len(tgtBlocks)) THEN mergedBlocks
  ELSE MergeBlocksFrom(srcBlocks, tgtBlocks, i + 1,
                       mergedBlocks \o MergeBlockAt(srcBlocks, tgtBlocks, i))

\* doc.content || []
BlocksOf(doc) == IF ContentOf(doc).js = "array" THEN ContentOf(doc).items ELSE <<>>

\* out.content = blocks
WithContent(out, blocks) ==
  [f \in DOMAIN out \cup {"content"} |-> IF f = "content" THEN Arr(blocks) ELSE out[f]]

\* The body after the guard; reading a property of null or undefined throws.
MergeDocuments(sourceDoc, targetDoc) ==
  IF IsNullish(sourceDoc) \/ IsNullish(targetDoc) THEN Thrown
  ELSE Returned(WithContent(clone(targetDoc),
         coalesceAdjacentTextNodesInBlocks(
           MergeBlocksFrom(BlocksOf(sourceDoc), BlocksOf(clone(targetDoc)), 1, <<>>))),
         FALSE)

NeitherIsDocument(sourceDoc, targetDoc) ==
  ~isRichTextDocument(sourceDoc) /\ ~isRichTextDocument(targetDoc)

\* if (!isRichTextDocument(sourceDoc) || !isRichTextDocument(targetDoc))
NotBothDocuments(sourceDoc, targetDoc) ==
  ~isRichTextDocument(sourceDoc) \/ ~isRichTextDocument(targetDoc)

mergeRichTextDocuments(sourceDoc, targetDoc) ==
  IF NotBothDocuments(sourceDoc, targetDoc) THEN Returned(targetDoc, TRUE)
  ELSE MergeDocuments(sourceDoc, targetDoc)

\* ---- the documents merged ----

Bold == Mark("bold")
Italic == Mark("italic")
LinkData == "{\"uri\":\"https://example.com\"}"

\* The inline nodes a paragraph is made of.
Inlines ==
  { TextNode(<<"a">>, <<>>),
    TextNode(<<"a">>, <<Bold>>),
    TextNode(<<"a", "a">>, <<Bold>>),
    TextNode(<<"X">>, <<Italic>>),
    TextNode(<<"X", "a">>, <<>>),
    Node("hyperlink", LinkData, <<TextNode(<<"a">>, <<>>)>>) }

RECURSIVE SeqsUpTo(_, _)
\* the sequences of at most n elements of S
SeqsUpTo(S, n) ==
  IF n = 0 THEN {<<>>}
  ELSE SeqsUpTo(S, n - 1) \cup {Append(s, x) : s \in SeqsUpTo(S, n - 1), x \in S}

Paragraph(content) == Node("paragraph", EmptyData, content)

ListItem(content) == Node("list-item", EmptyData, content)

Asset(id) == Node("embedded-asset-block", id, <<>>)

\* The blocks a document with several blocks is made of.
Blocks ==
  { Paragraph(<<TextNode(<<"a">>, <<Bold>>)>>),
    Paragraph(<<TextNode(<<"X", "a">>, <<>>)>>),
    Node("heading-1", EmptyData, <<TextNode(<<"a">>, <<>>)>>),
    Asset("{\"target\":\"asset1\"}"),
    Asset("{\"target\":\"asset2\"}"),
    Node("unordered-list", EmptyData,
         <<ListItem(<<Paragraph(<<TextNode(<<"a">>, <<Bold>>)>>)>>)>>),
    Node("unordered-list", EmptyData,
         <<ListItem(<<Paragraph(<<TextNode(<<"X", "a">>, <<>>)>>)>>),
           ListItem(<<Asset("{\"target\":\"asset1\"}")>>)>>) }

Document(blocks) == Obj("document", Arr(blocks))

\* documents of one paragraph, of at most MaxInlines inline nodes
ParagraphDocs == {Document(<<Paragraph(c)>>) : c \in SeqsUpTo(Inlines, MaxInlines)}

\* documents of at most MaxBlocks blocks
BlockDocs == {Document(bs) : bs \in SeqsUpTo(Blocks, MaxBlocks)}

\* values that are no document: no object, another node, no array of blocks
NonDocuments ==
  { Null, Undefined, Str, Arr(<<>>),
    Obj("paragraph", Arr(<<>>)),
    Obj("document", Null),
    Obj("document", Undefined) }

RichInit ==
  /\ \/ /\ srcDoc \in ParagraphDocs
        /\ tgtDoc \in ParagraphDocs
     \/ /\ srcDoc \in BlockDocs
        /\ tgtDoc \in BlockDocs
     \/ /\ srcDoc \in NonDocuments
        /\ tgtDoc \in NonDocuments \cup BlockDocs
     \/ /\ srcDoc \in BlockDocs
        /\ tgtDoc \in NonDocuments
  /\ outcome = NoOutcome
  /\ reoutcome = NoOutcome
  /\ richPc = "input"

\* outcome = mergeRichTextDocuments(sourceDoc, targetDoc)
MergeDocs ==
  /\ richPc = "input"
  /\ outcome' = mergeRichTextDocuments(srcDoc, tgtDoc)
  /\ richPc' = "merged"
  /\ UNCHANGED <<srcDoc, tgtDoc, reoutcome>>
  /\ UNCHANGED notRichVars

\* reoutcome = mergeRichTextDocuments(sourceDoc, outcome), the merge run again
\* on its own result
RemergeDocs ==
  /\ richPc = "merged"
  /\ reoutcome' = mergeRichTextDocuments(srcDoc, outcome.value)
  /\ richPc' = "remerged"
  /\ UNCHANGED <<srcDoc, tgtDoc, outcome>>
  /\ UNCHANGED notRichVars

NextRich == MergeDocs \/ RemergeDocs

InitRich == RichInit /\ GwIdle /\ TextIdle /\ AdoptIdle /\ DiffIdle

SpecRich == InitRich /\ [][NextRich]_vars

----------------------------------------------------------------------------
\* adoptTree.js
\* The remote space holds entries; a field of an entry is the object of its
\* values per locale, written as a record with one field per locale, where
\* Undefined stands for a locale the object has no key for.

sourceLocale == "en"
targetLocale == "de"
defaultLocale == "en"

\* The entries of the space and the one the dialog is opened on.
Records == {"A", "B"}

Root == "A"

Text(chars) == [js |-> "string", chars |-> chars]

Num(n) == [js |-> "number", n |-> n]

Link(id) == [js |-> "object", sys |-> [id |-> id]]

Localized(src, tgt) == [en |-> src, de |-> tgt]

\* v used as a condition
Truthy(v) ==
  CASE v.js \in {"null", "undefined"} -> FALSE
    [] v.js = "string" -> v.chars # <<>>
    [] v.js = "number" -> v.n # 0
    [] OTHER -> TRUE

isRichText(val) ==
  /\ Truthy(val)
  /\ val.js \in {"object", "array"}
  /\ NodeTypeOf(val) = "document"
  /\ ContentOf(val).js = "array"

\* l?.sys?.id, with "" for undefined
IdOf(l) == IF "sys" \in DOMAIN l THEN l.sys.id ELSE ""

\* localizedValues?.[defaultLocale] ?? Object.values(localizedValues || {})[0]
DefaultValue(localizedValues) ==
  LET \* the keys of the object, in their order
      present == SelectSeq(<<"en", "de">>, LAMBDA l : localizedValues[l] # Undefined)
  IN IF ~IsNullish(localizedValues[defaultLocale]) THEN localizedValues[defaultLocale]
     ELSE IF present = <<>> THEN Undefined
     ELSE localizedValues[present[1]]

\* adoptAll || allowedForThisEntry.has(fieldId), with
\* allowedForThisEntry = selected[entryId] || new Set()
AllowedAlways(entryId, fieldId) == TRUE

Allowed(entryId, fieldId) == adoptAll \/ fieldId \in selected[entryId]

\* newFields[fieldId] = { ...localizedValues, [targetLocale]: value } without changed++
AdoptedUncounted(acc, fieldId, localizedValues, value) ==
  [acc EXCEPT !.newFields[fieldId] = [localizedValues EXCEPT ![targetLocale] = value]]

\* newFields[fieldId] = { ...localizedValues, [targetLocale]: value }; changed++
Adopted(acc, fieldId, localizedValues, value) ==
  [acc EXCEPT !.newFields[fieldId] = [localizedValues EXCEPT ![targetLocale] = value],
              !.changed = @ + 1]

\* if (merged !== tgtVal), if (JSON.stringify(value) !== JSON.stringify(tgtVal)):
\* the value written where it is not the target-locale value
AdoptedIfDiffers(acc, fieldId, localizedValues, value) ==
  IF jsonEq(value, localizedValues[targetLocale]) THEN acc
  ELSE Adopted(acc, fieldId, localizedValues, value)

RECURSIVE AddRefs(_, _)
\* refIds.add(id) for each id of ids that is not empty
AddRefs(acc, ids) ==
  IF ids = <<>> THEN acc
  ELSE AddRefs(
         IF Head(ids) = "" \/ \E i \in DOMAIN acc.refIds : acc.refIds[i] = Head(ids)
         THEN acc
         ELSE [acc EXCEPT !.refIds = Append(@, Head(ids))],
         Tail(ids))

\* lines 88-132: a field that links one entry
LinkField(def, localizedValues, allowed, acc) ==
  IF def.localized
  THEN LET srcLink == localizedValues[sourceLocale]
           tgtLink == localizedValues[targetLocale]
           full == IF IsNullish(tgtLink) /\ Truthy(srcLink) /\ allowed
                   THEN Adopted(acc, def.id, localizedValues, clone(srcLink))
                   ELSE acc
           insert == IF allowed /\ Truthy(srcLink) /\ Truthy(tgtLink)
                        /\ ~jsonEq(srcLink, tgtLink)
                     THEN Adopted(full, def.id, localizedValues, clone(srcLink))
                     ELSE full
       IN AddRefs(insert,
                  <<IF IdOf(srcLink) # "" THEN IdOf(srcLink) ELSE IdOf(tgtLink)>>)
  ELSE AddRefs(acc, <<IdOf(DefaultValue(localizedValues))>>)

\* lines 137-192: a field that links a list of entries
ArrayField(def, localizedValues, allowed, acc) ==
  IF def.localized
  THEN LET srcArr == localizedValues[sourceLocale]
           tgtArr == localizedValues[targetLocale]
           \* arr.map((l) => l?.sys?.id) where arr is an array, [] otherwise
           IdsOf(arr) ==
             IF arr.js = "array" THEN [i \in DOMAIN arr.items |-> IdOf(arr.items[i])]
             ELSE <<>>
           full == IF IsNullish(tgtArr) /\ Truthy(srcArr) /\ allowed
                   THEN Adopted(acc, def.id, localizedValues, clone(srcArr))
                   ELSE acc
           insert == IF allowed /\ srcArr.js = "array" /\ tgtArr.js = "array"
                        /\ ~jsonEq(srcArr, tgtArr)
                     THEN Adopted(full, def.id, localizedValues, clone(srcArr))
                     ELSE full
       IN AddRefs(insert, IdsOf(srcArr) \o IdsOf(tgtArr))
  ELSE AddRefs(acc,
         IF DefaultValue(localizedValues).js = "array"
         THEN [i \in DOMAIN DefaultValue(localizedValues).items |->
                 IdOf(DefaultValue(localizedValues).items[i])]
         ELSE <<>>)

\* lines 197-257: any other field
ValueField(def, localizedValues, allowed, acc) ==
  IF ~def.localized \/ ~allowed THEN acc
  ELSE LET srcVal == localizedValues[sourceLocale]
           tgtVal == localizedValues[targetLocale]
       IN IF IsNullish(tgtVal)
          THEN IF srcVal # Undefined
               THEN Adopted(acc, def.id, localizedValues, clone(srcVal))
               ELSE acc
          ELSE IF srcVal.js = "string" /\ tgtVal.js = "string"
          THEN AdoptedIfDiffers(acc, def.id, localizedValues,
                 Text(mergeSourceAdditionsIntoTarget(srcVal.chars, tgtVal.chars)))
          ELSE IF isRichText(srcVal) /\ isRichText(tgtVal)
          THEN AdoptedIfDiffers(acc, def.id, localizedValues,
                 mergeRichTextDocuments(srcVal, tgtVal).value)
          ELSE IF isRichText(srcVal) /\ ~isRichText(tgtVal) THEN acc
          ELSE IF srcVal # Undefined
          THEN AdoptedIfDiffers(acc, def.id, localizedValues, clone(srcVal))
          ELSE acc

\* A loop body that treats every field as localized.
ProcessFieldAsLocalized(def, fields, allowed, acc) ==
  IF fields[def.id] = Undefined THEN acc
  ELSE IF def.type = "Link" /\ def.linkType = "Entry"
  THEN LinkField([def EXCEPT !.localized = TRUE], fields[def.id], allowed, acc)
  ELSE IF def.type = "Array" /\ def.items.type = "Link" /\ def.items.linkType = "Entry"
  THEN ArrayField([def EXCEPT !.localized = TRUE], fields[def.id], allowed, acc)
  ELSE ValueField(def, fields[def.id], allowed, acc)

\* the body of the loop of line 78
ProcessField(def, fields, allowed, acc) ==
  IF fields[def.id] = Undefined THEN acc
  ELSE IF def.type = "Link" /\ def.linkType = "Entry"
  THEN LinkField(def, fields[def.id], allowed, acc)
  ELSE IF def.type = "Array" /\ def.items.type = "Link" /\ def.items.linkType = "Entry"
  THEN ArrayField(def, fields[def.id], allowed, acc)
  ELSE ValueField(def, fields[def.id], allowed, acc)

RECURSIVE ProcessFields(_, _, _, _)
\* for (const def of contentType.fields || [])
ProcessFields(defs, entryId, fields, acc) ==
  IF defs = <<>> THEN acc
  ELSE ProcessFields(Tail(defs), entryId, fields,
         ProcessField(Head(defs), fields, Allowed(entryId, Head(defs).id), acc))

\* ---- the traversal ----

\* The content types of the space: a page localizes its links, a post does not.
ContentTypes ==
  LET FieldDef(id, type, linkType, items, localized) ==
        [id |-> id, type |-> type, linkType |-> linkType, items |-> items,
         localized |-> localized]
  IN
  [page |-> [fields |-> <<
       FieldDef("ref", "Link", "Entry", Undefined, TRUE),
       FieldDef("refs", "Array", "", [type |-> "Link", linkType |-> "Entry"], TRUE),
       FieldDef("val", "Text", "", Undefined, TRUE)>>],
   post |-> [fields |-> <<
       FieldDef("ref", "Link", "Entry", Undefined, FALSE),
       FieldDef("refs", "Array", "", [type |-> "Link", linkType |-> "Entry"], FALSE),
       FieldDef("val", "Text", "", Undefined, TRUE)>>]]

Entry(version, contentType, fields) ==
  [version |-> version, contentType |-> contentType, fields |-> fields]

\* a call of adoptEntryTree that has not run its first line yet
Call(entryId) ==
  [entryId |-> entryId, pc |-> "enter", entry |-> Null, newFields |-> Null,
   changed |-> 0, refIds |-> <<>>,
   summary |-> [updatedEntries |-> 0, changedFields |-> 0, traversedEntries |-> 0]]

Top == stack[Len(stack)]

\* the call returns s to its caller, which adds it to its own summary (297-299),
\* or to the dialog, which ends the invocation
Return(s) ==
  IF Len(stack) = 1
  THEN /\ stack' = <<>>
       /\ adPc' = "done"
       /\ summary' = s
       /\ runs' = runs + 1
  ELSE /\ stack' = [SubSeq(stack, 1, Len(stack) - 1) EXCEPT ![Len(stack) - 1].summary =
            [updatedEntries |-> @.updatedEntries + s.updatedEntries,
             changedFields |-> @.changedFields + s.changedFields,
             traversedEntries |-> @.traversedEntries + s.traversedEntries]]
       /\ UNCHANGED <<adPc, summary, runs>>

NeverVisited(entryId) == entryId = ""

\* if (!entryId || visited.has(entryId))
AlreadyVisited(entryId) == entryId = "" \/ entryId \in visited

\* A dialog that hands the visited set and the content type cache of the
\* invocation before to the next one.
AdoptStartKeepingVisited ==
  /\ adPc \in {"idle", "done", "failed"}
  /\ runs < MaxRuns
  /\ failures <= MaxFailures
  /\ adPc' = "running"
  /\ stack' = <<Call(Root)>>
  /\ entryGets' = <<>>
  /\ ctGets' = <<>>
  /\ updates' = <<>>
  /\ store0' = store
  /\ afterDone' = (adPc = "done")
  /\ UNCHANGED <<store, selected, adoptAll, summary, runs, failures, visited, ctCache>>
  /\ UNCHANGED notAdoptVars

\* the dialog calls adoptEntryTree on the root entry, with a fresh visited set
\* and a fresh content type cache
AdoptStart ==
  /\ adPc \in {"idle", "done", "failed"}
  /\ runs < MaxRuns
  /\ failures <= MaxFailures
  /\ adPc' = "running"
  /\ stack' = <<Call(Root)>>
  /\ visited' = {}
  /\ ctCache' = {}
  /\ entryGets' = <<>>
  /\ ctGets' = <<>>
  /\ updates' = <<>>
  /\ store0' = store
  /\ afterDone' = (adPc = "done")
  /\ UNCHANGED <<store, selected, adoptAll, summary, runs, failures>>
  /\ UNCHANGED notAdoptVars

\* line 42: nothing to do for an entry already visited
AdoptSkip ==
  /\ adPc = "running"
  /\ Top.pc = "enter"
  /\ AlreadyVisited(Top.entryId)
  /\ Return(Top.summary)
  /\ UNCHANGED <<store, selected, adoptAll, visited, ctCache, entryGets, ctGets,
                 updates, store0, failures, afterDone>>
  /\ UNCHANGED notAdoptVars

\* lines 43-56: the entry fetched
AdoptEntry ==
  /\ adPc = "running"
  /\ Top.pc = "enter"
  /\ ~AlreadyVisited(Top.entryId)
  /\ visited' = visited \cup {Top.entryId}
  /\ entryGets' = Append(entryGets, [entryId |-> Top.entryId,
                                     version |-> store[Top.entryId].version])
  /\ stack' = [stack EXCEPT ![Len(stack)] =
                 [Top EXCEPT !.entry = store[Top.entryId],
                             !.summary.traversedEntries = @ + 1,
                             !.pc = IF store[Top.entryId].contentType \in ctCache
                                    THEN "fields" ELSE "contentType"]]
  /\ UNCHANGED <<store, selected, adoptAll, adPc, ctCache, ctGets, updates, summary,
                 store0, runs, failures, afterDone>>
  /\ UNCHANGED notAdoptVars

\* lines 57-66: the content type fetched and cached
AdoptContentType ==
  /\ adPc = "running"
  /\ Top.pc = "contentType"
  /\ ctGets' = Append(ctGets, Top.entry.contentType)
  /\ ctCache' = ctCache \cup {Top.entry.contentType}
  /\ stack' = [stack EXCEPT ![Len(stack)].pc = "fields"]
  /\ UNCHANGED <<store, selected, adoptAll, adPc, visited, entryGets, updates, summary,
                 store0, runs, failures, afterDone>>
  /\ UNCHANGED notAdoptVars

\* lines 68-258: the fields of the fetched entry processed
AdoptFields ==
  /\ adPc = "running"
  /\ Top.pc = "fields"
  /\ LET \* the call after the loop of line 78, at line 263
         AfterFields(frame, acc) ==
           [frame EXCEPT !.newFields = acc.newFields, !.changed = acc.changed,
                         !.refIds = acc.refIds,
                         !.pc = IF acc.changed > 0 THEN "update" ELSE "children"]
     IN stack' = [stack EXCEPT ![Len(stack)] =
                    AfterFields(Top,
                      ProcessFields(ContentTypes[Top.entry.contentType].fields,
                                    Top.entryId, Top.entry.fields,
                                    [newFields |-> Top.entry.fields, changed |-> 0,
                                     refIds |-> <<>>]))]
  /\ UNCHANGED <<store, selected, adoptAll, adPc, visited, ctCache, entryGets, ctGets,
                 updates, summary, store0, runs, failures, afterDone>>
  /\ UNCHANGED notAdoptVars

UpdateRequestNextVersion(frame) ==
  [entryId |-> frame.entryId, version |-> frame.entry.version + 1,
   fields |-> frame.newFields]

\* cma.entry.update({ entryId, ..., version: entry.sys.version },
\*                  { ...entry, fields: newFields })
UpdateRequest(frame) ==
  [entryId |-> frame.entryId, version |-> frame.entry.version,
   fields |-> frame.newFields]

\* lines 263-277: the update accepted by the space, which stores the fields under
\* the next version
AdoptUpdate ==
  /\ adPc = "running"
  /\ Top.pc = "update"
  /\ UpdateRequest(Top).version = store[Top.entryId].version
  /\ updates' = Append(updates, UpdateRequest(Top))
  /\ store' = [store EXCEPT ![Top.entryId] =
                 Entry(@.version + 1, @.contentType, UpdateRequest(Top).fields)]
  /\ stack' = [stack EXCEPT ![Len(stack)] =
                 [Top EXCEPT !.pc = "children",
                             !.summary.updatedEntries = @ + 1,
                             !.summary.changedFields = @ + Top.changed]]
  /\ UNCHANGED <<selected, adoptAll, adPc, visited, ctCache, entryGets, ctGets,
                 summary, store0, runs, failures, afterDone>>
  /\ UNCHANGED notAdoptVars

\* A caller that catches the rejection of the update and goes on with the
\* linked entries.
AdoptUpdateFailsCaught ==
  /\ adPc = "running"
  /\ Top.pc = "update"
  /\ failures < MaxFailures \/ UpdateRequest(Top).version # store[Top.entryId].version
  /\ updates' = Append(updates, UpdateRequest(Top))
  /\ stack' = [stack EXCEPT ![Len(stack)].pc = "children"]
  /\ failures' = failures + 1
  /\ UNCHANGED <<store, selected, adoptAll, adPc, visited, ctCache, entryGets, ctGets,
                 summary, store0, runs, afterDone>>
  /\ UNCHANGED notAdoptVars

\* lines 264-274: the update rejected (a version conflict, or an error that
\* callCMA gives up on), which ends the invocation with that error
AdoptUpdateFails ==
  /\ adPc = "running"
  /\ Top.pc = "update"
  /\ failures < MaxFailures \/ UpdateRequest(Top).version # store[Top.entryId].version
  /\ updates' = Append(updates, UpdateRequest(Top))
  /\ adPc' = "failed"
  /\ stack' = <<>>
  /\ failures' = failures + 1
  /\ UNCHANGED <<store, selected, adoptAll, visited, ctCache, entryGets, ctGets,
                 summary, store0, runs, afterDone>>
  /\ UNCHANGED notAdoptVars

\* lines 282-296: adoptEntryTree called on the next child
AdoptChild ==
  /\ adPc = "running"
  /\ Top.pc = "children"
  /\ Top.refIds # <<>>
  /\ Len(stack) < MaxDepth
  /\ stack' = Append([stack EXCEPT ![Len(stack)].refIds = Tail(@)],
                     Call(Head(Top.refIds)))
  /\ UNCHANGED <<store, selected, adoptAll, adPc, visited, ctCache, entryGets, ctGets,
                 updates, summary, store0, runs, failures, afterDone>>
  /\ UNCHANGED notAdoptVars

\* line 302: every child done
AdoptReturn ==
  /\ adPc = "running"
  /\ Top.pc = "children"
  /\ Top.refIds = <<>>
  /\ Return(Top.summary)
  /\ UNCHANGED <<store, selected, adoptAll, visited, ctCache, entryGets, ctGets,
                 updates, store0, failures, afterDone>>
  /\ UNCHANGED notAdoptVars

NextAdopt ==
  \/ AdoptStart
  \/ AdoptSkip
  \/ AdoptEntry
  \/ AdoptContentType
  \/ AdoptFields
  \/ AdoptUpdate
  \/ AdoptUpdateFails
  \/ AdoptChild
  \/ AdoptReturn

\* ---- the spaces adopted ----

Welcome == Text(<<"W", "e", "l", "c", "o", "m", "e">>)

\* a document of one blank paragraph, as the editor leaves one: its only child
\* is a text node with the empty string
BlankDoc == Document(<<Paragraph(<<TextNode(<<>>, <<>>)>>)>>)

\* The source-locale and target-locale values of a plain field.
ValuePairs ==
  LET NormalDoc == Document(<<Paragraph(<<TextNode(<<"a">>, <<Bold>>)>>)>>)
      AssetDoc == Document(<<Asset("asset1")>>)
  IN
  { Localized(Welcome, Undefined),
    Localized(Text(<<"a">>), Text(<<"a">>)),
    Localized(Text(<<"a", " ", "a">>), Text(<<" ", "a", " ", " ">>)),
    Localized(Text(<<"a", "X">>), Text(<<"a">>)),
    Localized(NormalDoc, NormalDoc),
    Localized(BlankDoc, BlankDoc),
    Localized(NormalDoc, AssetDoc),
    Localized(NormalDoc, Undefined),
    Localized(NormalDoc, Text(<<"a">>)),
    Localized(Text(<<"a">>), NormalDoc),
    Localized(Num(1), Num(2)),
    Localized(Num(1), Num(1)),
    Localized(Undefined, Text(<<"a">>)),
    Localized(Null, Null) }

\* The values of the fields of the root: a page links in either locale, a post
\* in the default locale only.
RootEntries(vals) ==
  { Entry(1, "page", [ref |-> ref, refs |-> refs, val |-> val]) :
      ref \in { Localized(Link("B"), Link("B")), Localized(Link("B"), Undefined),
                Localized(Undefined, Link("B")), Undefined },
      refs \in { Undefined, Localized(Arr(<<Link("B"), Link("A")>>), Arr(<<Link("B")>>)) },
      val \in vals }
  \cup
  { Entry(1, "post", [ref |-> ref, refs |-> refs, val |-> val]) :
      ref \in { Localized(Link("B"), Undefined), Localized(Undefined, Undefined) },
      refs \in { Undefined, Localized(Arr(<<Link("B")>>), Undefined) },
      val \in vals }

\* The other entry, which may link back to the root.
ChildEntries(vals) ==
  { Entry(3, "page", [ref |-> ref, refs |-> Undefined, val |-> val]) :
      ref \in { Localized(Link("A"), Link("A")), Localized(Link("A"), Undefined),
                Undefined },
      val \in vals }

\* The values of the plain field of the other entry.
ChildValuePairs ==
  { Localized(Welcome, Undefined),
    Localized(Text(<<"a">>), Text(<<"a">>)),
    Localized(Text(<<"a", "X">>), Text(<<"a">>)),
    Localized(BlankDoc, BlankDoc) }

\* Roots whose link differs between the locales: the source-locale value links
\* the root itself, the target-locale value the other entry.
DivergentRoots ==
  { Entry(1, "page", [ref |-> ref, refs |-> refs, val |-> Localized(Welcome, Undefined)]) :
      ref \in { Undefined, Localized(Link("A"), Link("B")) },
      refs \in { Undefined, Localized(Arr(<<Link("A")>>), Arr(<<Link("B")>>)) } }
    \ { Entry(1, "page", [ref |-> Undefined, refs |-> Undefined,
                          val |-> Localized(Welcome, Undefined)]) }

\* What the user ticked in the dialog.
Selections ==
  { [adoptAll |-> TRUE, selected |-> [r \in Records |-> {}]],
    [adoptAll |-> FALSE, selected |-> [r \in Records |-> {}]],
    [adoptAll |-> FALSE, selected |-> [A |-> {"val"}, B |-> {}]],
    [adoptAll |-> FALSE, selected |-> [A |-> {"ref", "refs"}, B |-> {"val"}]] }

AdoptInit(roots, children, selections) ==
  /\ store \in {[A |-> a, B |-> b] : a \in roots, b \in children}
  /\ \E s \in selections : selected = s.selected /\ adoptAll = s.adoptAll
  /\ adPc = "idle"
  /\ stack = <<>>
  /\ visited = {}
  /\ ctCache = {}
  /\ entryGets = <<>>
  /\ ctGets = <<>>
  /\ updates = <<>>
  /\ summary = Null
  /\ store0 = store
  /\ runs = 0
  /\ failures = 0
  /\ afterDone = FALSE

InitAdopt ==
  /\ AdoptInit(RootEntries(ValuePairs) \cup DivergentRoots,
               ChildEntries(ChildValuePairs), Selections)
  /\ GwIdle
  /\ TextIdle
  /\ RichIdle
  /\ DiffIdle

SpecAdopt == InitAdopt /\ [][NextAdopt]_vars

----------------------------------------------------------------------------
\* buildDiffTree.js
\* The tree is modelled by its shape: per field its type, the id it refers to
\* and its children; the display strings of a leaf are left out.

AssetLink(id) == [js |-> "object", sys |-> [id |-> id, linkType |-> "Asset"]]

\* The content type of the entries the dialog is opened on: links to entries,
\* a link to an asset and a plain field, all localized.
CardType ==
  [fields |-> <<
     [id |-> "ref", type |-> "Link", linkType |-> "Entry", items |-> Undefined,
      localized |-> TRUE],
     [id |-> "refs", type |-> "Array", linkType |-> "",
      items |-> [type |-> "Link", linkType |-> "Entry"], localized |-> TRUE],
     [id |-> "img", type |-> "Link", linkType |-> "Asset", items |-> Undefined,
      localized |-> TRUE],
     [id |-> "val", type |-> "Text", linkType |-> "", items |-> Undefined,
      localized |-> TRUE]>>]

\* what cma.contentType.get returns
ContentTypeOf(id) == IF id = "card" THEN CardType ELSE ContentTypes[id]

RequestAsUpdate(method, id) == [method |-> "entry.update", id |-> id]

\* a request to the space
Request(method, id) == [method |-> method, id |-> id]

\* a call of buildDiffTree on an entry: Object.entries(entry.fields) still to
\* go through, the reference field it is in (cur), and the tree so far
DiffCall(entryId, entry) ==
  [entryId |-> entryId, entry |-> entry, pc |-> "start", todo |-> <<>>, cur |-> Null,
   tree |-> <<>>]

DiffTop == dfStack[Len(dfStack)]

\* getLinkForSide, getLinksForSide: the value of the field for a locale, null
\* where there is none
ForSide(def, localizedValues, wantedLocale) ==
  IF def.localized
  THEN IF IsNullish(localizedValues[wantedLocale]) THEN Null
       ELSE localizedValues[wantedLocale]
  ELSE IF IsNullish(DefaultValue(localizedValues)) THEN Null
       ELSE DefaultValue(localizedValues)

\* links.map((l) => l?.sys?.id).filter(Boolean), of a link or of an array of links
LinkIds(value) ==
  IF value.js = "array"
  THEN SelectSeq([i \in DOMAIN value.items |-> IdOf(value.items[i])], LAMBDA id : id # "")
  ELSE IF IdOf(value) # "" THEN <<IdOf(value)>> ELSE <<>>

RECURSIVE Dedup(_, _)
\* Array.from(new Set(ids))
Dedup(ids, seen) ==
  IF ids = <<>> THEN seen
  ELSE Dedup(Tail(ids),
             IF \E i \in DOMAIN seen : seen[i] = Head(ids) THEN seen
             ELSE Append(seen, Head(ids)))

\* The dialog fetches the entry it is opened on and calls buildDiffTree on it
\* with an empty cache.
DiffStart ==
  /\ dfPc = "idle"
  /\ dfPc' = "running"
  /\ dfCalls' = <<Request("entry.get", Root)>>
  /\ dfStack' = <<DiffCall(Root, store[Root])>>
  /\ cache' = <<>>
  /\ dfCtCache' = {}
  /\ assetCache' = {}
  /\ dfVisits' = <<>>
  /\ UNCHANGED dfTree
  /\ UNCHANGED adoptVars
  /\ UNCHANGED <<gwVars, textVars, richVars>>

\* lines 13-37: the content type fetched unless cached, the loop entered
DiffEnter ==
  /\ dfPc = "running"
  /\ DiffTop.pc = "start"
  /\ dfVisits' = Append(dfVisits, DiffTop.entryId)
  /\ IF DiffTop.entry.contentType \in dfCtCache
     THEN UNCHANGED <<dfCalls, dfCtCache>>
     ELSE /\ dfCalls' = Append(dfCalls,
                               Request("contentType.get", DiffTop.entry.contentType))
          /\ dfCtCache' = dfCtCache \cup {DiffTop.entry.contentType}
  /\ dfStack' = [dfStack EXCEPT ![Len(dfStack)] =
       [DiffTop EXCEPT
          !.pc = "fields",
          !.todo = SelectSeq(ContentTypeOf(DiffTop.entry.contentType).fields,
                             LAMBDA def : DiffTop.entry.fields[def.id] # Undefined)]]
  /\ UNCHANGED <<dfPc, cache, assetCache, dfTree>>
  /\ UNCHANGED adoptVars
  /\ UNCHANGED <<gwVars, textVars, richVars>>

\* lines 51-82, 121-154, 201-284: the next field looked at. A field with
\* references becomes the current one; an asset field fetches its two assets
\* at once, each unless cached when getAsset is called; any other field is a leaf.
DiffField ==
  /\ dfPc = "running"
  /\ DiffTop.pc = "fields"
  /\ DiffTop.cur = Null
  /\ DiffTop.todo # <<>>
  /\ LET def == Head(DiffTop.todo)
         localizedValues == DiffTop.entry.fields[def.id]
         srcIds == LinkIds(ForSide(def, localizedValues, sourceLocale))
         tgtIds == LinkIds(ForSide(def, localizedValues, targetLocale))
         isEntryRef == def.type = "Link" /\ def.linkType = "Entry"
         isEntryArrayRef == def.type = "Array" /\ def.items.type = "Link"
                              /\ def.items.linkType = "Entry"
         isAssetLink == def.type = "Link" /\ def.linkType = "Asset"
         leaf == [fieldId |-> def.id, type |-> "field", id |-> "", children |-> <<>>]
         rest == [DiffTop EXCEPT !.todo = Tail(@)]
     IN IF (isEntryRef \/ isEntryArrayRef) /\ srcIds \o tgtIds # <<>>
        THEN /\ dfStack' = [dfStack EXCEPT ![Len(dfStack)] =
                  [rest EXCEPT !.cur =
                     [fieldId |-> def.id,
                      type |-> IF isEntryRef THEN "reference" ELSE "reference-list",
                      ids |-> IF isEntryRef THEN <<(srcIds \o tgtIds)[1]>>
                              ELSE Dedup(srcIds \o tgtIds, <<>>),
                      children |-> <<>>]]]
             /\ UNCHANGED <<dfCalls, assetCache>>
        ELSE IF isEntryRef \/ isEntryArrayRef
        THEN /\ dfStack' = [dfStack EXCEPT ![Len(dfStack)] =
                              [rest EXCEPT !.tree = Append(@, leaf)]]
             /\ UNCHANGED <<dfCalls, assetCache>>
        ELSE IF isAssetLink
        THEN /\ dfCalls' = dfCalls \o
                  [i \in DOMAIN SelectSeq(srcIds \o tgtIds, LAMBDA id : id \notin assetCache)
                     |-> Request("asset.get",
                           SelectSeq(srcIds \o tgtIds, LAMBDA id : id \notin assetCache)[i])]
             /\ assetCache' = assetCache \cup {(srcIds \o tgtIds)[i] :
                                                i \in DOMAIN (srcIds \o tgtIds)}
             /\ dfStack' = [dfStack EXCEPT ![Len(dfStack)] =
                              [rest EXCEPT !.tree = Append(@, leaf)]]
        ELSE /\ dfStack' = [dfStack EXCEPT ![Len(dfStack)] =
                              IF def.localized THEN [rest EXCEPT !.tree = Append(@, leaf)]
                              ELSE rest]
             /\ UNCHANGED <<dfCalls, assetCache>>
  /\ UNCHANGED <<dfPc, cache, dfCtCache, dfVisits, dfTree>>
  /\ UNCHANGED adoptVars
  /\ UNCHANGED <<gwVars, textVars, richVars>>

\* lines 84-106, 157-177: the next referenced entry fetched unless cached, and
\* buildDiffTree called on it
DiffLinked ==
  /\ dfPc = "running"
  /\ DiffTop.cur # Null
  /\ DiffTop.cur.ids # <<>>
  /\ Len(dfStack) < MaxDiffDepth
  /\ LET linkedId == Head(DiffTop.cur.ids)
     IN IF linkedId \in DOMAIN cache
        THEN /\ dfStack' = Append(dfStack, DiffCall(linkedId, cache[linkedId]))
             /\ UNCHANGED <<dfCalls, cache>>
        ELSE /\ dfCalls' = Append(dfCalls, Request("entry.get", linkedId))
             /\ cache' = (linkedId :> store[linkedId]) @@ cache
             /\ dfStack' = Append(dfStack, DiffCall(linkedId, store[linkedId]))
  /\ UNCHANGED <<dfPc, dfCtCache, assetCache, dfVisits, dfTree>>
  /\ UNCHANGED adoptVars
  /\ UNCHANGED <<gwVars, textVars, richVars>>

\* The calls nest deeper than the call stack allows: the innermost call throws
\* and the traversal rejects.
DiffOverflow ==
  /\ dfPc = "running"
  /\ DiffTop.cur # Null
  /\ DiffTop.cur.ids # <<>>
  /\ Len(dfStack) >= MaxDiffDepth
  /\ dfPc' = "failed"
  /\ dfStack' = <<>>
  /\ UNCHANGED <<cache, dfCtCache, assetCache, dfCalls, dfVisits, dfTree>>
  /\ UNCHANGED adoptVars
  /\ UNCHANGED <<gwVars, textVars, richVars>>

\* lines 108-116, 186-196: every referenced entry of the field done
DiffFieldDone ==
  /\ dfPc = "running"
  /\ DiffTop.cur # Null
  /\ DiffTop.cur.ids = <<>>
  /\ dfStack' = [dfStack EXCEPT ![Len(dfStack)] =
       [DiffTop EXCEPT
          !.cur = Null,
          !.tree = Append(@, [fieldId |-> DiffTop.cur.fieldId, type |-> DiffTop.cur.type,
                              id |-> IF DiffTop.cur.type = "reference"
                                     THEN DiffTop.cur.children[1].id ELSE "",
                              children |-> DiffTop.cur.children])]]
  /\ UNCHANGED <<dfPc, cache, dfCtCache, assetCache, dfCalls, dfVisits, dfTree>>
  /\ UNCHANGED adoptVars
  /\ UNCHANGED <<gwVars, textVars, richVars>>

\* line 286: the tree returned, to the call that waits for it (lines 97, 168)
\* or to the dialog
DiffReturn ==
  /\ dfPc = "running"
  /\ DiffTop.pc = "fields"
  /\ DiffTop.cur = Null
  /\ DiffTop.todo = <<>>
  /\ IF Len(dfStack) = 1
     THEN /\ dfPc' = "done"
          /\ dfTree' = DiffTop.tree
          /\ dfStack' = <<>>
     ELSE /\ dfStack' = [SubSeq(dfStack, 1, Len(dfStack) - 1) EXCEPT
               ![Len(dfStack) - 1].cur =
                  [@ EXCEPT !.ids = Tail(@),
                            !.children = Append(@, [id |-> DiffTop.entryId,
                                                    children |-> DiffTop.tree])]]
          /\ UNCHANGED <<dfPc, dfTree>>
  /\ UNCHANGED <<cache, dfCtCache, assetCache, dfCalls, dfVisits>>
  /\ UNCHANGED adoptVars
  /\ UNCHANGED <<gwVars, textVars, richVars>>

NextDiff ==
  \/ DiffStart
  \/ DiffEnter
  \/ DiffField
  \/ DiffLinked
  \/ DiffOverflow
  \/ DiffFieldDone
  \/ DiffReturn

\* The entries the dialog is opened on and the entries they link.
DiffEntries(self, other) ==
  { Entry(1, "card", [ref |-> ref, refs |-> refs, img |-> img, val |-> val]) :
      ref \in { Undefined, Localized(Link(other), Link(other)),
                Localized(Undefined, Link(other)), Localized(Null, Undefined) },
      refs \in { Undefined,
                 Localized(Arr(<<Link(other), Link(self)>>), Arr(<<Link(other)>>)),
                 Localized(Arr(<<>>), Undefined) },
      img \in { Undefined, Localized(AssetLink("asset1"), AssetLink("asset1")),
                Localized(AssetLink("asset1"), AssetLink("asset2")),
                Localized(AssetLink("asset2"), Undefined) },
      val \in { Localized(Welcome, Undefined), Localized(BlankDoc, BlankDoc) } }

InitDiff ==
  /\ store \in {[A |-> a, B |-> b] :
                  a \in DiffEntries("A", "B"),
                  b \in {e \in DiffEntries("B", "A") : e.fields.refs = Undefined}
                          \cup ChildEntries({Localized(Welcome, Undefined)})}
  /\ dfPc = "idle"
  /\ dfStack = <<>>
  /\ cache = <<>>
  /\ dfCtCache = {}
  /\ assetCache = {}
  /\ dfCalls = <<>>
  /\ dfVisits = <<>>
  /\ dfTree = Null
  /\ AdoptOff
  /\ GwIdle
  /\ TextIdle
  /\ RichIdle

SpecDiff == InitDiff /\ [][NextDiff]_vars

----------------------------------------------------------------------------
\* C1: at any moment at most maxPerSecond admissions of throttle() lie within
\* the last windowMs ms, whatever the interleaving of the callers of the one
\* shared limiter (so no rolling window ever holds more than maxPerSecond).
C1_RateCeiling == Len(recent) <= maxPerSecond

\* The budget is used up while one caller sleeps and another is about to ask.
C1_Witness ==
  /\ Len(recent) = maxPerSecond
  /\ \E c, d \in Callers : c # d /\ pc[c] = "throttleSleep" /\ pc[d] = "throttle"

\* C2: callCMA never invokes the operation more than retries + 1 times, and
\* when it rejects with a rate-limit error it has invoked it exactly
\* retries + 1 times and rejects with the very error of the last invocation.
C2_RetryBounded ==
  \A c \in CMACallers :
    /\ invocations[c] <= retries + 1
    /\ (pc[c] = "thrown" /\ IsRate(thrown[c])) =>
          /\ invocations[c] = retries + 1
          /\ attempt[c] = retries
          /\ thrown[c] = lastErr[c]
          /\ thrown[c].n = invocations[c]

C2_Witness == \E c \in CMACallers : pc[c] = "thrown" /\ IsRate(thrown[c])

\* C3: once the operation has failed with an error that is no rate-limit
\* signal, callCMA has rejected with that error, the operation has not been
\* invoked since, and every backoff sleep belongs to an earlier failure.
C3_NonRatePropagates ==
  \A c \in CMACallers :
    (lastErr[c] # NoErr /\ ~IsRate(lastErr[c])) =>
       /\ pc[c] = "thrown"
       /\ thrown[c] = lastErr[c]
       /\ invocations[c] = lastErr[c].n
       /\ sleeps[c] = invocations[c] - 1

\* A non-rate failure on the third attempt.
C3_Witness ==
  \E c \in CMACallers :
    pc[c] = "thrown" /\ ~IsRate(thrown[c]) /\ attempt[c] = 2 /\ sleeps[c] = 2

\* ---- the plain-text merge ----

RECURSIVE IsSubsequence(_, _)
\* the characters of t occur in m, in the order of t
IsSubsequence(t, m) ==
  IF t = <<>> THEN TRUE
  ELSE IF m = <<>> THEN FALSE
  ELSE IF Head(t) = Head(m) THEN IsSubsequence(Tail(t), Tail(m))
  ELSE IsSubsequence(t, Tail(m))

\* t occurs in m as one unbroken run
IsSubstring(t, m) ==
  \E i \in 0..(Len(m) - Len(t)) : Substring(m, i, i + Len(t)) = t

\* source is target with one run of characters added at position i
IsSingleInsertion(source, target) ==
  /\ Len(source) > Len(target)
  /\ \E i \in 0..Len(target) :
       /\ Substring(source, 0, i) = Substring(target, 0, i)
       /\ SubstringFrom(source, Len(source) - (Len(target) - i)) = SubstringFrom(target, i)

\* C4 (as worded): after a merge the whole target occurs in the result as one
\* contiguous run of characters.
C4_TargetContiguous ==
  textPc # "input" => IsSubstring(tgtText, merged)

\* C4 (amended): after a merge every character of the target occurs in the
\* result, in the target's order; the merge deletes no character of the target
\* (source additions may stand between them).
C4_TargetPreserved ==
  /\ textPc # "input" => IsSubsequence(tgtText, merged)
  /\ textPc = "remerged" => IsSubsequence(merged, remerged)

\* The result is longer than the source (it kept text the source lacks) and
\* longer than the target (it took text from the source), and the text taken
\* landed inside the target.
C4_Witness ==
  /\ textPc = "merged"
  /\ Len(merged) > Len(srcText)
  /\ Len(merged) > Len(tgtText)
  /\ ~IsSubstring(tgtText, merged)

\* C5: merging the source again into the result of a merge gives that result.
C5_Idempotent ==
  textPc = "remerged" => remerged = merged

\* C6: with an empty target the merge is the source, and with an empty source
\* the merge is the target.
C6_EmptyInputs ==
  textPc # "input" =>
    /\ tgtText = <<>> => merged = srcText
    /\ srcText = <<>> => merged = tgtText

\* An empty source merged into a target of full length.
C6_Witness ==
  /\ textPc = "merged"
  /\ srcText = <<>>
  /\ Len(tgtText) = MaxTextLen
  /\ merged = tgtText

\* C7: when the source is the target with one run of characters added, the
\* merge is exactly the source.
C7_SingleInsertion ==
  (textPc # "input" /\ IsSingleInsertion(srcText, tgtText)) => merged = srcText

\* The sentence added before the final full stop of "Hello world.".
C7_Witness ==
  /\ textPc = "merged"
  /\ tgtText = SentenceTarget
  /\ srcText = SentenceSource
  /\ merged = SentenceSource

\* ---- the rich-text merge ----

SrcBlocks == BlocksOf(srcDoc)
TgtBlocks == BlocksOf(tgtDoc)
OutBlocks == BlocksOf(outcome.value)

BothDocuments == isRichTextDocument(srcDoc) /\ isRichTextDocument(tgtDoc)

\* the indices at which source and target both have a block
SharedIndices == 1..Min(Len(SrcBlocks), Len(TgtBlocks))

KindsAgree == \A i \in SharedIndices : SrcBlocks[i].nodeType = TgtBlocks[i].nodeType

\* the indices at which the merge keeps the target block and adds the source's
AddingIndices ==
  {i \in SharedIndices :
     \/ SrcBlocks[i].nodeType # TgtBlocks[i].nodeType
     \/ /\ TgtBlocks[i].nodeType \notin InlineKinds \cup ListKinds
        /\ SrcBlocks[i] # TgtBlocks[i]}

\* C8: when the source or the target is no well-formed document (an object of
\* nodeType "document" whose content is an array), the call does not throw and
\* returns the very target it was given.
C8_NonDocumentReturnsTarget ==
  (richPc = "merged"
     /\ (~isRichTextDocument(srcDoc) \/ ~isRichTextDocument(tgtDoc)))
  => outcome = Returned(tgtDoc, TRUE)

\* A document with blocks is merged into a target that is null.
C8_Witness ==
  /\ richPc = "merged"
  /\ isRichTextDocument(srcDoc)
  /\ SrcBlocks # <<>>
  /\ tgtDoc = Null
  /\ outcome = Returned(Null, TRUE)

\* C9 (as worded): the merged document has max(source blocks, target blocks)
\* blocks whenever the kinds agree at every shared index, and more only when
\* the kinds differ at some index.
C9_MaxUnlessKindsDiverge ==
  (richPc = "merged" /\ BothDocuments) =>
    /\ KindsAgree => Len(OutBlocks) = Max(Len(SrcBlocks), Len(TgtBlocks))
    /\ Len(OutBlocks) > Max(Len(SrcBlocks), Len(TgtBlocks)) => ~KindsAgree

\* C9 (amended): the merged document has max(source blocks, target blocks)
\* blocks plus one for every shared index where the kinds differ or where two
\* blocks of the same opaque kind (neither inline-bearing nor a list) differ.
C9_BlockCount ==
  (richPc = "merged" /\ BothDocuments) =>
    /\ ~outcome.threw
    /\ Len(OutBlocks) =
         Max(Len(SrcBlocks), Len(TgtBlocks)) + Cardinality(AddingIndices)

\* The kinds agree at every index and the merge still adds a block.
C9_Witness ==
  /\ richPc = "merged"
  /\ BothDocuments
  /\ KindsAgree
  /\ Len(OutBlocks) > Max(Len(SrcBlocks), Len(TgtBlocks))

MarkTypes(marks) == {marks[i].type : i \in DOMAIN marks}

\* the characters of a text node, each with its marks and the link around it
CharsOfText(node, link) ==
  [i \in 1..Len(node.value) |->
     [ch |-> node.value[i], marks |-> MarkTypes(node.marks), link |-> link]]

RECURSIVE CharsOfNodes(_, _)
CharsOfNodes(nodes, link) ==
  IF nodes = <<>> THEN <<>>
  ELSE (IF Head(nodes).nodeType = "text" THEN CharsOfText(Head(nodes), link)
        ELSE CharsOfNodes(Head(nodes).content, Head(nodes).data))
       \o CharsOfNodes(Tail(nodes), link)

\* the formatted characters of an inline-bearing block
FormattedChars(block) == CharsOfNodes(block.content, "")

TextOfChars(chars) == [i \in DOMAIN chars |-> chars[i].ch]

\* the target character whose formatting an insertion at cursor takes: the one
\* at the cursor, or the last one when the cursor is at the end
FormatAt(tgtChars, cursor) ==
  IF cursor < Len(tgtChars) THEN tgtChars[cursor + 1]
  ELSE IF tgtChars # <<>> THEN tgtChars[Len(tgtChars)]
  ELSE [ch |-> "", marks |-> {}, link |-> ""]

InsertedChars(text, like) ==
  [i \in 1..Len(text) |-> [ch |-> text[i], marks |-> like.marks, link |-> like.link]]

RECURSIVE ExpectedChars(_, _, _)
\* the target's characters as they are, and each insertion formatted like the
\* target at the insertion point
ExpectedChars(diffs, tgtChars, cursor) ==
  IF diffs = <<>> THEN <<>>
  ELSE IF Head(diffs).op = DIFF_INSERT
    THEN InsertedChars(Head(diffs).text, FormatAt(tgtChars, cursor))
           \o ExpectedChars(Tail(diffs), tgtChars, cursor)
    ELSE SubSeq(tgtChars, cursor + 1, cursor + Len(Head(diffs).text))
           \o ExpectedChars(Tail(diffs), tgtChars, cursor + Len(Head(diffs).text))

\* the block with the same text and no formatting at all
Unformatted(block) ==
  Node(block.nodeType, block.data,
       <<TextNode(TextOfChars(FormattedChars(block)), <<>>)>>)

\* source and target are documents of one inline-bearing block of the same kind
OneInlinePair ==
  /\ BothDocuments
  /\ Len(SrcBlocks) = 1
  /\ Len(TgtBlocks) = 1
  /\ SrcBlocks[1].nodeType = TgtBlocks[1].nodeType
  /\ TgtBlocks[1].nodeType \in InlineKinds

\* C10: in the merge of two inline-bearing blocks every inserted character has
\* the marks and the link of the target character at the insertion point (of
\* the last target character when inserting at the end), and the merged block
\* is the same whatever the formatting of the source.
C10_InsertionInheritsTargetFormat ==
  (richPc = "merged" /\ OneInlinePair) =>
    /\ FormattedChars(OutBlocks[1]) =
         ExpectedChars(TextDiffs(TextOfChars(FormattedChars(SrcBlocks[1])),
                                 TextOfChars(FormattedChars(TgtBlocks[1]))),
                       FormattedChars(TgtBlocks[1]), 0)
    /\ OutBlocks[1] = mergeInlineBlock(Unformatted(SrcBlocks[1]), TgtBlocks[1])

\* An italic "X" of the source is inserted into a target that is all bold and
\* comes out bold.
C10_Witness ==
  /\ richPc = "merged"
  /\ OneInlinePair
  /\ \A i \in DOMAIN FormattedChars(TgtBlocks[1]) :
       FormattedChars(TgtBlocks[1])[i].marks = {"bold"}
  /\ \E i \in DOMAIN FormattedChars(SrcBlocks[1]) :
       FormattedChars(SrcBlocks[1])[i] = [ch |-> "X", marks |-> {"italic"}, link |-> ""]
  /\ \E i \in DOMAIN FormattedChars(OutBlocks[1]) :
       FormattedChars(OutBlocks[1])[i] = [ch |-> "X", marks |-> {"bold"}, link |-> ""]
  /\ Len(TgtBlocks[1].content) > 0

\* C11: merging the source again into the result of a merge of two well-formed
\* documents gives a document structurally equal to that result.
C11_RichIdempotent ==
  (richPc = "remerged" /\ BothDocuments) => reoutcome.value = outcome.value

\* The event loop resumes a call whose awaited request has settled, and callCMA
\* settles every request after at most retries attempts; whether the dialog
\* starts another invocation is up to the user.
InitAdoptFair ==
  /\ AdoptInit(RootEntries({Localized(Welcome, Undefined)}),
               ChildEntries({Localized(Welcome, Undefined)}),
               {s \in Selections : s.adoptAll})
  /\ GwIdle
  /\ TextIdle
  /\ RichIdle
  /\ DiffIdle

SpecAdoptFair ==
  /\ InitAdoptFair
  /\ [][NextAdopt]_vars
  /\ WF_vars(AdoptSkip \/ AdoptEntry \/ AdoptContentType \/ AdoptFields
               \/ AdoptUpdate \/ AdoptChild \/ AdoptReturn)

\* The ids an entry links in either locale.
LinkedIds(entry) ==
  LET valuesOf(lv) == IF lv = Undefined THEN {} ELSE {lv[l] : l \in {"en", "de"}}
      links == valuesOf(entry.fields.ref)
                 \cup UNION {{a.items[i] : i \in DOMAIN a.items} :
                               a \in {v \in valuesOf(entry.fields.refs) : v.js = "array"}}
  IN {IdOf(l) : l \in links} \ {""}

RECURSIVE ReachableFrom(_, _)
\* The entries that links lead to from the entries of S in the space sp.
ReachableFrom(S, sp) ==
  LET more == S \cup UNION {LinkedIds(sp[r]) : r \in S}
  IN IF more = S THEN S ELSE ReachableFrom(more, sp)

\* How many times the current invocation fetched entry r.
GetsOf(r) == Cardinality({i \in DOMAIN entryGets : entryGets[i].entryId = r})

C12_FetchedOnce ==
  /\ \A r \in Records : GetsOf(r) <= 1
  /\ adPc = "done" =>
       /\ \A r \in Records :
            GetsOf(r) = IF r \in ReachableFrom({Root}, store0) THEN 1 ELSE 0
       /\ summary.traversedEntries = Cardinality(ReachableFrom({Root}, store0))

\* C12: on any finite graph of entries, one with a cycle included, an
\* invocation of adoptEntryTree ends, and it fetches and processes each entry
\* reachable from the root exactly once: an entry already visited is never
\* fetched again.
C12_TerminatesOncePerRecord ==
  /\ []C12_FetchedOnce
  /\ (adPc = "running") ~> (adPc \in {"done", "failed"})

\* A completed invocation on the cycle A -> B -> A.
C12_Witness ==
  /\ adPc = "done"
  /\ "B" \in LinkedIds(store0["A"])
  /\ "A" \in LinkedIds(store0["B"])
  /\ GetsOf("A") = 1
  /\ GetsOf("B") = 1

\* Every localized field of every entry reachable from the root in the space sp
\* holds the same value in the source locale and in the target locale.
FullySynced(sp) ==
  \A r \in ReachableFrom({Root}, sp) :
    \A i \in DOMAIN ContentTypes[sp[r].contentType].fields :
      LET def == ContentTypes[sp[r].contentType].fields[i]
      IN def.localized /\ sp[r].fields[def.id] # Undefined =>
           sp[r].fields[def.id][sourceLocale] = sp[r].fields[def.id][targetLocale]

\* C13: when every localized field of every reachable entry already has equal
\* source-locale and target-locale values, whatever its kind, an invocation
\* issues no update and returns changedFields 0 and updatedEntries 0, with
\* traversedEntries the number of distinct reachable entries.
C13_SyncedNoUpdate ==
  (adPc \in {"running", "done"} /\ FullySynced(store0)) =>
    /\ updates = <<>>
    /\ adPc = "done" =>
         /\ summary.changedFields = 0
         /\ summary.updatedEntries = 0
         /\ summary.traversedEntries = Cardinality(ReachableFrom({Root}, store0))

\* The localized fields of entry e that may be adopted for entry id r, whose
\* target-locale value is absent and whose source-locale value is present.
AbsentTargetFields(r, e) ==
  {f \in {"ref", "refs", "val"} :
     /\ \E i \in DOMAIN ContentTypes[e.contentType].fields :
          /\ ContentTypes[e.contentType].fields[i].id = f
          /\ ContentTypes[e.contentType].fields[i].localized
     /\ adoptAll \/ f \in selected[r]
     /\ e.fields[f] # Undefined
     /\ e.fields[f][targetLocale] = Undefined
     /\ ~IsNullish(e.fields[f][sourceLocale])}

\* C14: a selected localized field whose target-locale value is absent and
\* whose source-locale value is present gets the source value, verbatim, as its
\* target-locale value, and counts as exactly one changed field: the update of
\* the entry carries the source value, and an entry with no other field has
\* changed equal to the number of such fields.
C14_AbsentTargetAdopted ==
  /\ \A i \in DOMAIN updates :
       \A f \in AbsentTargetFields(updates[i].entryId, store0[updates[i].entryId]) :
         updates[i].fields[f] =
           [store0[updates[i].entryId].fields[f] EXCEPT
              ![targetLocale] = store0[updates[i].entryId].fields[f][sourceLocale]]
  /\ (adPc = "running" /\ Top.pc \in {"update", "children"}) =>
       /\ Top.changed >= Cardinality(AbsentTargetFields(Top.entryId, Top.entry))
       /\ (\A g \in {"ref", "refs", "val"} \ AbsentTargetFields(Top.entryId, Top.entry) :
             Top.entry.fields[g] = Undefined)
            => Top.changed = Cardinality(AbsentTargetFields(Top.entryId, Top.entry))
       /\ AbsentTargetFields(Top.entryId, Top.entry) # {} =>
            Top.pc = "update" \/ \E i \in DOMAIN updates : updates[i].entryId = Top.entryId

\* The root's only field is "Welcome" in the source locale and absent in the
\* target locale; the invocation wrote "Welcome" and counted one changed field.
C14_Witness ==
  /\ adPc = "done"
  /\ store0["A"].fields = [ref |-> Undefined, refs |-> Undefined,
                           val |-> Localized(Welcome, Undefined)]
  /\ store["A"].fields.val = Localized(Welcome, Welcome)
  /\ summary = [updatedEntries |-> 1, changedFields |-> 1, traversedEntries |-> 1]

\* The update requests the current invocation issued for entry r.
UpdatesOf(r) == {i \in DOMAIN updates : updates[i].entryId = r}

\* C15: within one invocation each entry is written at most once. An entry
\* with at least one changed field gets exactly one update, which carries all
\* its changed fields together and the version this invocation fetched; an
\* entry with no changed field gets none.
C15_OneUpdatePerRecord ==
  /\ \A r \in Records : Cardinality(UpdatesOf(r)) <= 1
  /\ \A i \in DOMAIN updates :
       /\ GetsOf(updates[i].entryId) = 1
       /\ \A j \in DOMAIN entryGets :
            entryGets[j].entryId = updates[i].entryId =>
              entryGets[j].version = updates[i].version
  /\ \A k \in DOMAIN stack :
       /\ stack[k].pc \in {"contentType", "fields", "update"} =>
            UpdatesOf(stack[k].entryId) = {}
       /\ stack[k].pc = "children" /\ stack[k].changed = 0 =>
            UpdatesOf(stack[k].entryId) = {}
       /\ stack[k].pc = "children" /\ stack[k].changed > 0 =>
            /\ Cardinality(UpdatesOf(stack[k].entryId)) = 1
            /\ \A i \in UpdatesOf(stack[k].entryId) :
                 /\ updates[i].fields = stack[k].newFields
                 /\ Cardinality({f \in {"ref", "refs", "val"} :
                        updates[i].fields[f] # stack[k].entry.fields[f]})
                      <= stack[k].changed

\* Both entries were written, the root with two changed fields in one update.
C15_Witness ==
  /\ adPc = "done"
  /\ Len(updates) = 2
  /\ updates[1].entryId = "A"
  /\ updates[1].version = store0["A"].version
  /\ updates[1].fields.ref # store0["A"].fields.ref
  /\ updates[1].fields.val # store0["A"].fields.val
  /\ updates[2].entryId = "B"

\* C16: with adoptAll false, a field that is not in the selection of the entry
\* being processed is skipped entirely, whatever its kind: every update
\* carries the fetched values of the field, and the field is not counted, so
\* that changed is at most the number of selected fields.
C16_UnselectedSkipped ==
  ~adoptAll =>
    /\ \A i \in DOMAIN updates :
         \A f \in {"ref", "refs", "val"} \ selected[updates[i].entryId] :
           updates[i].fields[f] = store0[updates[i].entryId].fields[f]
    /\ \A k \in DOMAIN stack :
         stack[k].pc \in {"update", "children"} =>
           /\ \A f \in {"ref", "refs", "val"} \ selected[stack[k].entryId] :
                stack[k].newFields[f] = stack[k].entry.fields[f]
           /\ stack[k].changed <= Cardinality(selected[stack[k].entryId])

\* Only the plain field of the root is selected: the update adopts "Welcome"
\* and leaves alone the link whose target-locale value is absent and the link
\* array whose target-locale value differs.
C16_Witness ==
  /\ ~adoptAll
  /\ selected["A"] = {"val"}
  /\ adPc = "done"
  /\ store0["A"].fields.ref = Localized(Link("B"), Undefined)
  /\ store0["A"].fields.refs # Undefined
  /\ store0["A"].fields.val = Localized(Welcome, Undefined)
  /\ Len(updates) = 1
  /\ updates[1].fields = [store0["A"].fields EXCEPT !.val = Localized(Welcome, Welcome)]
  /\ summary.changedFields = 1

\* Exactly one of the two values of a field is a structured document and the
\* other is a present value that is not.
MixedKinds(localizedValues) ==
  /\ localizedValues # Undefined
  /\ ~IsNullish(localizedValues[sourceLocale])
  /\ ~IsNullish(localizedValues[targetLocale])
  /\ isRichText(localizedValues[sourceLocale]) # isRichText(localizedValues[targetLocale])

\* C17: a localized field where exactly one of the source-locale and
\* target-locale values is a structured document, and the other is a present
\* value that is not, is skipped whichever side the document is on: its
\* values are left as fetched and it is not counted as changed.
C17_MixedKindSkipped ==
  \A k \in DOMAIN stack :
    (stack[k].pc \in {"update", "children"} /\ MixedKinds(stack[k].entry.fields.val)) =>
      /\ stack[k].newFields.val = stack[k].entry.fields.val
      /\ (stack[k].entry.fields.ref = Undefined /\ stack[k].entry.fields.refs = Undefined)
           => stack[k].changed = 0

\* C18: re-running adoption converges. An invocation that follows a completed
\* one, with the same arguments and no other writer, issues no update and
\* returns changedFields 0.
C18_RerunConverges ==
  (afterDone /\ adPc \in {"running", "done"}) =>
    /\ updates = <<>>
    /\ adPc = "done" => summary.changedFields = 0

\* C19: buildDiffTree is read-only. Every request it sends is a get (of an
\* entry, a content type or an asset), never an update; no step changes the
\* space, and the entries it holds keep the field values they were read with.
C19_DiffReadOnly ==
  /\ [](/\ \A i \in DOMAIN dfCalls :
             dfCalls[i].method \in {"entry.get", "contentType.get", "asset.get"}
        /\ \A id \in DOMAIN cache : cache[id] = store[id]
        /\ \A k \in DOMAIN dfStack : dfStack[k].entry = store[dfStack[k].entryId])
  /\ [][store' = store]_vars

\* A tree built with requests of all three kinds.
C19_Witness ==
  /\ dfPc = "done"
  /\ \E i \in DOMAIN dfCalls : dfCalls[i].method = "contentType.get"
  /\ \E i \in DOMAIN dfCalls : dfCalls[i].method = "asset.get"
  /\ \E i \in DOMAIN dfCalls : dfCalls[i].method = "entry.get" /\ dfCalls[i].id = "B"
  /\ Len(dfTree) >= 3

\* C20: on a graph of entries with a cycle (A links B, B links A)
\* buildDiffTree ends with a tree, having been called on each entry at most once.
C20_DiffVisitsOnce ==
  /\ dfPc # "failed"
  /\ \A r \in Records : Cardinality({i \in DOMAIN dfVisits : dfVisits[i] = r}) <= 1

\* ---- the call gateway, once more ----

\* C21: when throttle() finds the window full, the sleep it starts lasts until
\* the oldest retained timestamp leaves the window of windowMs ms, plus the
\* jitter, so that the re-check after the sleep finds a free slot unless
\* another caller took it.
C21_WaitUntilOldestExpires ==
  [][\A c \in Callers :
       (pc[c] = "throttle" /\ pc'[c] = "throttleSleep") =>
          \E j \in 0..(jitterMs - 1) :
             wakeAt'[c] = Head(calls') + windowMs + j]_vars

\* C22: every invocation of the operation by callCMA, the first one and each
\* retry, is made on the caller's own admission by throttle() (the step that
\* pushes its timestamp on the shared log), one invocation per admission; and
\* after the rate-limit failure of attempt k the backoff sleep lasts at least
\* baseDelay * 2^k ms, the next throttle() starting only when it is over.
C22_ThrottleBeforeEveryInvocation ==
  [][\A c \in CMACallers :
       /\ (invocations'[c] # invocations[c] /\ invocations'[c] # 0) =>
             /\ invocations'[c] = invocations[c] + 1
             /\ invocations'[c] = attempt[c] + 1
             /\ pc[c] = "throttle" /\ pc'[c] = "fn"
             /\ Len(DropOld(calls, clock)) < maxPerSecond
             /\ calls' = Append(DropOld(calls, clock), clock)
             /\ nAdmitted' = nAdmitted + 1
       /\ (pc[c] = "fn" /\ pc'[c] = "backoff") =>
             /\ IsRate(lastErr'[c])
             /\ wakeAt'[c] >= clock + baseDelay * 2^(attempt[c])
       /\ (pc[c] = "backoff" /\ pc'[c] # "backoff") =>
             /\ clock >= wakeAt[c]
             /\ attempt'[c] = attempt[c] + 1
             /\ pc'[c] = "throttle"
             /\ invocations'[c] = invocations[c]
    ]_vars

\* The third invocation, made after two failures and two backoff sleeps.
C22_Witness ==
  \E c \in CMACallers :
    /\ pc[c] = "fn"
    /\ attempt[c] = 2
    /\ invocations[c] = 3
    /\ sleeps[c] = 2
    /\ clock >= baseDelay + 2 * baseDelay

\* ---- the adoption, once more ----

\* C23: after processing an entry, adoptEntryTree recurses into every id that
\* a link field or a link-array field of the entry holds in the source-locale
\* value or in the target-locale value: the ids collected for the recursion
\* are all of them, and a completed invocation has visited every entry that a
\* visited entry links in either locale.
C23_BothLocalesTraversed ==
  /\ \A i \in DOMAIN stack :
       stack[i].pc = "update" =>
         {stack[i].refIds[j] : j \in DOMAIN stack[i].refIds} = LinkedIds(stack[i].entry)
  /\ adPc = "done" =>
       \A r \in visited : LinkedIds(store0[r]) \subseteq visited

\* The link fields and link-array fields of content type ct that are not localized.
NonLocalizedLinks(ct) ==
  { ContentTypes[ct].fields[i].id : i \in
      { k \in DOMAIN ContentTypes[ct].fields :
          LET def == ContentTypes[ct].fields[k]
          IN /\ ~def.localized
             /\ \/ def.type = "Link" /\ def.linkType = "Entry"
                \/ def.type = "Array" /\ def.items.type = "Link"
                     /\ def.items.linkType = "Entry" } }

\* The ids that the non-localized link fields of an entry hold in the default locale.
DefaultLinkedIds(entry) ==
  UNION { LET v == entry.fields[f][defaultLocale]
          IN IF v.js = "array" THEN {IdOf(v.items[i]) : i \in DOMAIN v.items}
             ELSE {IdOf(v)} \ {""} :
          f \in {g \in NonLocalizedLinks(entry.contentType) : entry.fields[g] # Undefined} }

\* C24: adoptEntryTree never changes a link field or link-array field that is
\* not localized: every update request carries such a field exactly as it was
\* fetched, whatever the user selected, and yet the calls collect the entries
\* it links for the recursion, so that a completed invocation has visited them.
C24_NonLocalizedLinksKept ==
  /\ \A i \in DOMAIN updates :
       \A f \in NonLocalizedLinks(store0[updates[i].entryId].contentType) :
         updates[i].fields[f] = store0[updates[i].entryId].fields[f]
  /\ \A i \in DOMAIN stack :
       stack[i].pc = "update" =>
         /\ \A f \in NonLocalizedLinks(stack[i].entry.contentType) :
              stack[i].newFields[f] = stack[i].entry.fields[f]
         /\ DefaultLinkedIds(stack[i].entry) \subseteq
              {stack[i].refIds[j] : j \in DOMAIN stack[i].refIds}
  /\ adPc = "done" =>
       \A r \in visited : DefaultLinkedIds(store0[r]) \subseteq visited

\* A completed invocation that updated a post whose link and link array, both
\* not localized, lead to B, which it visited.
C24_Witness ==
  /\ adPc = "done"
  /\ adoptAll
  /\ store0["A"].contentType = "post"
  /\ store0["A"].fields.ref = Localized(Link("B"), Undefined)
  /\ store0["A"].fields.refs = Localized(Arr(<<Link("B")>>), Undefined)
  /\ \E i \in DOMAIN updates :
       /\ updates[i].entryId = "A"
       /\ updates[i].fields.ref = Localized(Link("B"), Undefined)
       /\ updates[i].fields.val # store0["A"].fields.val
  /\ "B" \in visited

\* The update requests of the current invocation that the space did not apply:
\* the entry still has the version the request was sent with.
FailedUpdates ==
  {i \in DOMAIN updates : store[updates[i].entryId].version = updates[i].version}

\* C25: when the update of an entry is rejected with a failure that is no
\* rate-limit signal (a version conflict, say), the request was sent once and
\* is not sent again, the rejection ends the whole invocation (no call of
\* adoptEntryTree is left pending and none returns a summary), nothing is
\* fetched or written after it, the entries not visited before are untouched,
\* and every update applied earlier in the invocation stays in the space.
C25_UpdateFailurePropagates ==
  /\ \A i \in FailedUpdates :
       /\ adPc = "failed"
       /\ stack = <<>>
       /\ i = Len(updates)
       /\ Cardinality(UpdatesOf(updates[i].entryId)) = 1
       /\ entryGets[Len(entryGets)].entryId = updates[i].entryId
       /\ store[updates[i].entryId] = store0[updates[i].entryId]
       /\ \A r \in LinkedIds(store0[updates[i].entryId]) \ visited :
            GetsOf(r) = 0 /\ store[r] = store0[r]
  /\ adPc = "failed" =>
       /\ FailedUpdates = {Len(updates)}
       /\ \A j \in 1..(Len(updates) - 1) :
            store[updates[j].entryId] =
              Entry(updates[j].version + 1, store0[updates[j].entryId].contentType,
                    updates[j].fields)
       /\ \A r \in Records \ visited : store[r] = store0[r]

\* The update of A was applied, then the update of B, which links back to A,
\* was rejected.
C25_Witness ==
  /\ adPc = "failed"
  /\ Len(updates) = 2
  /\ updates[1].entryId = "A"
  /\ updates[2].entryId = "B"
  /\ store["A"].version = store0["A"].version + 1
  /\ store["A"].fields # store0["A"].fields
  /\ "A" \in LinkedIds(store0["B"])

\* ---- the diff tree, once more ----

\* C26: within one traversal of buildDiffTree (the requests after the dialog's
\* own fetch of the root) no content type, linked entry or asset is requested
\* from the space twice, whatever the fields hold, an asset field whose two
\* locales link the same asset included.
C26_NoDuplicateReads ==
  \A i, j \in 2..Len(dfCalls) : i # j => dfCalls[i] # dfCalls[j]

\* ---- the rich-text merge, once more ----

PlaceOf(i) == i + Cardinality({k \in AddingIndices : k < i})

\* C28: where source and target both have a top-level block at index i and the
\* kinds differ, the merged document holds the target block unchanged and the
\* source block right after it; no target block is replaced or removed (the
\* merged document has a block of the kind of every target block), and the
\* target's blocks keep their order.
C28_DifferentKindsKeepTargetThenSource ==
  (richPc = "merged" /\ BothDocuments) =>
    /\ ~outcome.threw
    /\ \A i \in DOMAIN TgtBlocks :
         /\ PlaceOf(i) \in DOMAIN OutBlocks
         /\ OutBlocks[PlaceOf(i)].nodeType = TgtBlocks[i].nodeType
         /\ \A k \in DOMAIN TgtBlocks : k < i => PlaceOf(k) < PlaceOf(i)
    /\ \A i \in SharedIndices :
         SrcBlocks[i].nodeType # TgtBlocks[i].nodeType =>
           /\ OutBlocks[PlaceOf(i)] = TgtBlocks[i]
           /\ PlaceOf(i) + 1 \in DOMAIN OutBlocks
           /\ OutBlocks[PlaceOf(i) + 1] = SrcBlocks[i]

\* The kinds differ at the first index and agree at the second: the target's
\* first block, the source's first block, then the merge of the second blocks.
C28_Witness ==
  /\ richPc = "merged"
  /\ BothDocuments
  /\ Len(SrcBlocks) = 2
  /\ Len(TgtBlocks) = 2
  /\ SrcBlocks[1].nodeType # TgtBlocks[1].nodeType
  /\ SrcBlocks[2].nodeType = TgtBlocks[2].nodeType
  /\ TgtBlocks[2].nodeType \in InlineKinds
  /\ Len(OutBlocks) = 3
  /\ OutBlocks[1] = TgtBlocks[1]
  /\ OutBlocks[2] = SrcBlocks[1]
  /\ OutBlocks[3] # TgtBlocks[2]

\* No single link of the space sp leads to different entries in the two locales.
NoDivergentLink(sp) ==
  \A r \in Records :
    sp[r].fields.ref = Undefined
      \/ "" \in {IdOf(sp[r].fields.ref[l]) : l \in {"en", "de"}}
      \/ IdOf(sp[r].fields.ref[sourceLocale]) = IdOf(sp[r].fields.ref[targetLocale])

\* An invocation that completed after an earlier one had completed fetched
\* every entry reachable from the root, and every content type of these, once.
C29_FetchedAgain ==
  (adPc = "done" /\ runs >= 2 /\ NoDivergentLink(store0)) =>
    /\ visited = ReachableFrom({Root}, store0)
    /\ \A r \in Records : GetsOf(r) = IF r \in visited THEN 1 ELSE 0
    /\ summary.traversedEntries = Cardinality(visited)
    /\ {ctGets[i] : i \in DOMAIN ctGets} = {store0[r].contentType : r \in visited}
    /\ Len(ctGets) = Cardinality({store0[r].contentType : r \in visited})

\* C29: the visited set and the content type cache hold nothing from one
\* invocation to the next: every invocation the dialog starts begins with both
\* empty, so an invocation that follows a completed one (the dialog adopting
\* into the next target locale) fetches and processes every reachable entry
\* again, whatever the earlier invocation visited.
C29_NoStateAcrossInvocations ==
  /\ []C29_FetchedAgain
  /\ [][(adPc # "running" /\ adPc' = "running") =>
          /\ visited' = {}
          /\ ctCache' = {}
          /\ stack' = <<Call(Root)>>]_vars

\* The second invocation is done and has fetched A and B, both visited by the
\* first one too.
C29_Witness ==
  /\ adPc = "done"
  /\ runs = 2
  /\ afterDone
  /\ NoDivergentLink(store0)
  /\ GetsOf("A") = 1
  /\ GetsOf("B") = 1
  /\ summary.traversedEntries = 2
  /\ ctGets # <<>>

\* ---- the limiter under fairness ----

\* Time without end in finitely many states: Date.now() stays the origin and
\* every passing of d ms moves the timestamps of the log and the ends of the
\* pending sleeps d ms into the past. A timestamp older than the window is
\* dropped by the next throttle() whatever its age, so its age is kept as
\* windowMs + 1; a sleep that is over is kept as over.
TickAges(steps) ==
  /\ \E c \in Callers : pc[c] \notin {"idle", "returned", "thrown"}
  /\ \E d \in steps :
       /\ calls' = [i \in DOMAIN calls |-> Max(calls[i] - d, 0 - (windowMs + 1))]
       /\ recent' = SelectSeq([i \in DOMAIN recent |-> recent[i] - d],
                              LAMBDA t : clock - t <= windowMs)
       /\ wakeAt' = [c \in Callers |-> Max(wakeAt[c] - d, 0)]
  /\ UNCHANGED <<clock, nAdmitted, pc, api, attempt, invocations, sleeps, lastErr,
                 thrown>>
  /\ UNCHANGED notGwVars

\* How much time passes at once: less than one polling sleep of throttle(), and
\* the whole window.
AgeSteps == {100, windowMs}

NextThrottleFair ==
  \/ TickAges(AgeSteps)
  \/ \E c \in Callers : CallThrottle(c)
  \/ \E c \in Callers : ThrottleStep(c)
  \/ \E c \in Callers : ThrottleWake(c)

\* The callers find the log full: of timestamps of this very moment, or with
\* one timestamp about to leave the window and seven newer ones.
InitThrottleFair ==
  /\ clock = 0
  /\ calls \in { [i \in 1..maxPerSecond |-> 0],
                 [i \in 1..maxPerSecond |-> IF i = 1 THEN 0 - 900 ELSE 0 - 100] }
  /\ recent = calls
  /\ nAdmitted = Len(calls)
  /\ pc = [c \in Callers |-> "idle"]
  /\ api = [c \in Callers |-> "none"]
  /\ wakeAt = [c \in Callers |-> 0]
  /\ attempt = [c \in Callers |-> 0]
  /\ invocations = [c \in Callers |-> 0]
  /\ sleeps = [c \in Callers |-> 0]
  /\ lastErr = [c \in Callers |-> NoErr]
  /\ thrown = [c \in Callers |-> NoErr]
  /\ TextIdle
  /\ RichIdle
  /\ AdoptIdle
  /\ DiffIdle

\* Time keeps advancing, the timer of every sleep fires once the sleep is over,
\* and the event loop runs every call of throttle() that is ready to run.
SpecThrottleFair ==
  /\ InitThrottleFair
  /\ [][NextThrottleFair]_vars
  /\ WF_vars(TickAges(AgeSteps))
  /\ \A c \in Callers : WF_vars(ThrottleWake(c))
  /\ \A c \in Callers : WF_vars(ThrottleStep(c))

\* C30: with time advancing, every sleeping caller resumed in the end and
\* finitely many calls of throttle() made on the shared limiter, every call
\* is admitted and returns in the end: no caller waits forever while the
\* others take the slots that become free.
C30_EveryCallAdmitted ==
  \A c \in Callers :
    (pc[c] \in {"throttle", "throttleSleep"}) ~> (pc[c] = "returned")

\* One caller sleeps at a full window whose newest slot another caller has
\* just taken.
C30_Witness ==
  \E c, d \in Callers :
    /\ c # d
    /\ pc[c] = "throttleSleep"
    /\ pc[d] = "returned"
    /\ Len(DropOld(calls, clock)) = maxPerSecond
    /\ calls[Len(calls)] = clock
    /\ calls[1] < clock
    /\ nAdmitted > maxPerSecond

====
